---- MODULE Spec2Model ----
(***************************************************************************)
(* Model of the EVM conflict-rate analyser:                                *)
(*   worker.py        RateLimiter, trace_transaction, analyze_trace,       *)
(*                    check_modifications_conflict, analyze_block          *)
(*   conflict_rate.py analyze_chain, main                                  *)
(*   calc_indie_txn.py analyze_block_dependencies (AccessSet mode)         *)
(*   config.py        MAX_RETRIES, RETRY_DELAY, chains                     *)
(*                                                                         *)
(* Four specifications share the variables of the module:                  *)
(*   SpecBlock  one call of analyze_block (block fetch, the per-transaction*)
(*              trace loop with its retry loop and rate limiter, the       *)
(*              pairwise conflict pass);                                   *)
(*   SpecChain  one call of analyze_chain (the worker pool, the            *)
(*              aggregation loop over the completed block futures and the  *)
(*              final summary);                                            *)
(*   SpecMain   main: analyze_chain on every chain of config.chains;       *)
(*   SpecDetect conflict detection on one pair of transactions, in         *)
(*              Modification mode (analyze_trace, then                     *)
(*              check_modifications_conflict) or in AccessSet mode.        *)
(* Time is counted in milliseconds.                                        *)
(***************************************************************************)
EXTENDS Integers, Sequences, FiniteSets, TLC

(***************************************************************************)
(* Bounds of the model.                                                    *)
(***************************************************************************)
\* largest number of transactions in the analysed block
MaxTxs == 2
\* largest number of blocks in the range handed to analyze_chain
MaxBlocks == 3

\* largest number of internal calls directly under the root call of a trace
MaxCalls == 1

\* largest number of CPUs of the machine
MaxCpus == 3
\* largest number of logs in the receipt of a transaction
MaxLogs == 1

(***************************************************************************)
(* Program constants.                                                      *)
(***************************************************************************)
\* config.py: MAX_RETRIES = 10
MAX_RETRIES == 10
\* config.py: RETRY_DELAY = 2 (seconds)
RETRY_DELAY == 2
\* worker.py: RateLimiter(calls_per_second=5) in analyze_block
calls_per_second == 5

\* 1.0 / self.calls_per_second, in milliseconds
MinInterval == 1000 \div calls_per_second

\* the delays the environment may add (a network round trip, a late return
\* of time.sleep): none, one shorter and one longer than MinInterval
Delays == {0, (3 * MinInterval) \div 4, (3 * MinInterval) \div 2}

Pow2(n) == 2 ^ n

Min(a, b) == IF a <= b THEN a ELSE b

Max(a, b) == IF a >= b THEN a ELSE b

(***************************************************************************)
(* Strings.  A Python string is the sequence of its characters, so that    *)
(* len, slicing, startswith, lower and concatenation are computed as the   *)
(* code computes them.                                                     *)
(***************************************************************************)
\* a key absent from a Python dict
Missing == <<"<missing>">>
\* Python None
None == <<"<None>">>

Rep(c, n) == [i \in 1..n |-> c]

\* s[a:b]
Slice(s, a, b) == SubSeq(s, a + 1, Min(b, Len(s)))

StartsWith(s, p) == Len(s) >= Len(p) /\ SubSeq(s, 1, Len(p)) = p

LowerChar(c) ==
    CASE c = "A" -> "a" [] c = "B" -> "b" [] c = "C" -> "c"
      [] c = "D" -> "d" [] c = "E" -> "e" [] c = "F" -> "f"
      [] c = "X" -> "x" [] OTHER -> c

\* str.lower()
Lower(s) == [i \in 1..Len(s) |-> LowerChar(s[i])]

Str0x == <<"0", "x">>
Str0x0 == <<"0", "x", "0">>
Str0x1 == <<"0", "x", "1">>

\* the selector of transfer(address,uint256): '0xa9059cbb'
TransferSelector == <<"0", "x", "a", "9", "0", "5", "9", "c", "b", "b">>
\* the selector of approve(address,uint256): '0x095ea7b3'
ApproveSelector == <<"0", "x", "0", "9", "5", "e", "a", "7", "b", "3">>

\* '0x000000000000000000000000': the prefix is_contract tests for
ZeroPrefix == Str0x \o Rep("0", 24)

\* a 20-byte address 0x dd..dd e, written with the digit d and the last digit e
Addr(d, e) == Str0x \o Rep(d, 39) \o <<e>>

\* dict.get(key, default) on a field that may be absent
Get(v, default) == IF v = Missing THEN default ELSE v

(***************************************************************************)
(* worker.py: traces, Modifications and Conflicts.                         *)
(*                                                                         *)
(* A call of a callTracer trace is a record                                *)
(*   [type, from, to, input, value, calls]                                 *)
(* where from, to, input and value are strings or Missing, type is the     *)
(* call type ("" when the key is absent, the default of call.get) and      *)
(* calls is the sequence of nested calls (<<>> when the key is absent, the *)
(* default of get('calls', [])).  A trace is the JSON-RPC response         *)
(* [result |-> call].                                                      *)
(***************************************************************************)
\* str.lower() on the call types a callTracer reports
LowerType(t) ==
    CASE t = "CALL" -> "call"
      [] t = "STATICCALL" -> "staticcall"
      [] t = "DELEGATECALL" -> "delegatecall"
      [] t = "CREATE" -> "create"
      [] OTHER -> t

get_function_selector(input_data) ==
    IF Len(input_data) >= 10 THEN Slice(input_data, 0, 10) ELSE None

\* mutant: the length of the input is not tested
decode_erc20_transferAnyLength(input_data) ==
    IF Slice(input_data, 0, 10) # TransferSelector
    THEN <<None, None>>
    ELSE <<None, Lower(Str0x \o Slice(input_data, 34, 74))>>

\* returns <<token_from, token_to>>
decode_erc20_transfer(input_data) ==
    IF Len(input_data) < 138
    THEN <<None, None>>
    ELSE IF Slice(input_data, 0, 10) # TransferSelector
         THEN <<None, None>>
         ELSE <<None, Lower(Str0x \o Slice(input_data, 34, 74))>>

is_contract(result, address) ==
    \/ Get(result.input, Str0x) # Str0x
    \/ result.calls # <<>>
    \/ StartsWith(address, ZeroPrefix)

Modification(type, from_addr, to_addr, input_data, value, token_from, token_to) ==
    [ type              |-> type,
      from_address      |-> from_addr,
      to_address        |-> to_addr,
      input_data        |-> input_data,
      value             |-> value,
      token_from        |-> IF type = "erc20-transfer"
                            THEN (IF token_from # None THEN token_from ELSE from_addr)
                            ELSE None,
      token_to          |-> IF type = "erc20-transfer" THEN token_to ELSE None,
      function_selector |-> get_function_selector(input_data) ]

\* mutant: the sender of the root call is stored as the trace spells it
RootModificationRawFrom(result) ==
    LET from_addr == result.from
        to_addr == Lower(result.to)
        input_data == Get(result.input, Str0x)
        value == Get(result.value, Str0x0)
        tok == decode_erc20_transfer(input_data)
        mod_type ==
            IF tok[1] # None \/ tok[2] # None
            THEN "erc20-transfer"
            ELSE IF ~is_contract(result, to_addr) /\ value # Str0x0
                 THEN "eoa-transfer"
                 ELSE IF input_data # Str0x THEN "contract-call" ELSE "eth-transfer"
    IN  Modification(mod_type, from_addr, to_addr, input_data, value, tok[1], tok[2])

\* lines 64-88: the Modification of the root call
RootModification(result) ==
    LET from_addr == Lower(result.from)
        to_addr == Lower(result.to)
        input_data == Get(result.input, Str0x)
        value == Get(result.value, Str0x0)
        tok == decode_erc20_transfer(input_data)
        mod_type ==
            IF tok[1] # None \/ tok[2] # None
            THEN "erc20-transfer"
            ELSE IF ~is_contract(result, to_addr) /\ value # Str0x0
                 THEN "eoa-transfer"
                 ELSE IF input_data # Str0x THEN "contract-call" ELSE "eth-transfer"
    IN  Modification(mod_type, from_addr, to_addr, input_data, value, tok[1], tok[2])

\* lines 91-114: the Modification of one entry of result['calls']
CallModification(call) ==
    LET from_addr == Lower(call.from)
        to_addr == Lower(call.to)
        input_data == Get(call.input, Str0x)
        value == Get(call.value, Str0x0)
        tok == decode_erc20_transfer(input_data)
        call_type ==
            IF tok[1] # None \/ tok[2] # None
            THEN "erc20-transfer"
            ELSE IF ~is_contract(call, to_addr) /\ value # Str0x0
                 THEN "eoa-transfer"
                 ELSE LowerType(call.type)
    IN  Modification(call_type, from_addr, to_addr, input_data, value, tok[1], tok[2])

\* result.get('to') is truthy
HasTo(result) == result.to # Missing /\ result.to # <<>>

\* analyze_trace raises KeyError: result['from'] or call['from'], call['to']
analyze_trace_raises(trace) ==
    LET result == trace.result
    IN  \/ HasTo(result) /\ result.from = Missing
        \/ \E i \in 1..Len(result.calls) :
              result.calls[i].from = Missing \/ result.calls[i].to = Missing

analyze_trace(trace) ==
    LET result == trace.result
        calls == result.calls
    IN  (IF HasTo(result) THEN <<RootModification(result)>> ELSE <<>>)
        \o [i \in 1..Len(calls) |-> CallModification(calls[i])]

Conflict(contract_address, type, details) ==
    [contract_address |-> contract_address, type |-> type, details |-> details]

\* the elements of a Python set in the order a for loop visits them
RECURSIVE SetToSeq(_)
SetToSeq(S) ==
    IF S = {} THEN <<>>
    ELSE LET x == CHOOSE y \in S : TRUE IN <<x>> \o SetToSeq(S \ {x})

\* the concatenation of a sequence of sequences
RECURSIVE Flatten(_)
Flatten(ss) == IF ss = <<>> THEN <<>> ELSE Head(ss) \o Flatten(Tail(ss))

\* mutant: the value of the Modification is not looked at
SourcesAnyValue(mods) ==
    { mods[i].from_address : i \in 1..Len(mods) }

\* lines 122-123: {mod.from_address for mod in mods if mod.value != '0x0'}
Sources(mods) ==
    { mods[i].from_address : i \in { j \in 1..Len(mods) : mods[j].value # Str0x0 } }

\* mutant: one conflict per source of mods1, common or not
SameSourceConflictsOneSided(mods1, mods2) ==
    LET common == SetToSeq(Sources(mods1))
    IN  [i \in 1..Len(common) |->
            Conflict(common[i], "same-source",
                     <<"Multiple ETH transfers from same source address", common[i]>>)]

\* lines 125-132
SameSourceConflicts(mods1, mods2) ==
    LET common == SetToSeq(Sources(mods1) \cap Sources(mods2))
    IN  [i \in 1..Len(common) |->
            Conflict(common[i], "same-source",
                     <<"Multiple ETH transfers from same source address", common[i]>>)]

\* mutant: both token operands have to be equal
Erc20MatchBoth(mod1, mod2) ==
    /\ mod2.type = "erc20-transfer"
    /\ mod1.to_address = mod2.to_address
    /\ (mod1.token_from = mod2.token_from /\ mod1.token_to = mod2.token_to)

\* the inner condition of lines 137-139
Erc20Match(mod1, mod2) ==
    /\ mod2.type = "erc20-transfer"
    /\ mod1.to_address = mod2.to_address
    /\ (mod1.token_from = mod2.token_from \/ mod1.token_to = mod2.token_to)

\* lines 134-146: one conflict per mod1 that has a match (break at the first)
Erc20Conflicts(mods1, mods2) ==
    Flatten([i \in 1..Len(mods1) |->
        IF /\ mods1[i].type = "erc20-transfer"
           /\ \E j \in 1..Len(mods2) : Erc20Match(mods1[i], mods2[j])
        THEN LET j == CHOOSE k \in 1..Len(mods2) :
                        /\ Erc20Match(mods1[i], mods2[k])
                        /\ \A l \in 1..(k - 1) : ~Erc20Match(mods1[i], mods2[l])
             IN  <<Conflict(mods1[i].to_address, "erc20-balance-conflict",
                            <<"ERC20 transfers affecting same address",
                              IF mods1[i].token_from = mods2[j].token_from
                              THEN mods1[i].token_from ELSE mods1[i].token_to>>)>>
        ELSE <<>>])

\* lines 148-159
EoaConflicts(mods1, mods2) ==
    Flatten([i \in 1..Len(mods1) |->
        IF /\ mods1[i].type = "eoa-transfer"
           /\ \E j \in 1..Len(mods2) :
                 /\ mods2[j].type = "eoa-transfer"
                 /\ mods1[i].to_address = mods2[j].to_address
        THEN <<Conflict(mods1[i].to_address, "eoa-transfer-conflict",
                        <<"Multiple transfers to same EOA", None>>)>>
        ELSE <<>>])

\* lines 161-172
ContractCallConflicts(mods1, mods2) ==
    Flatten([i \in 1..Len(mods1) |->
        IF /\ mods1[i].type = "contract-call"
           /\ \E j \in 1..Len(mods2) :
                 /\ mods2[j].type = "contract-call"
                 /\ mods1[i].to_address = mods2[j].to_address
                 /\ mods1[i].function_selector = mods2[j].function_selector
        THEN <<Conflict(mods1[i].to_address, "contract-call-conflict",
                        <<"Multiple calls to same function", mods1[i].function_selector>>)>>
        ELSE <<>>])

\* returns [dependent, conflicts]
check_modifications_conflict(mods1, mods2) ==
    LET same_source == SameSourceConflicts(mods1, mods2)
        erc20 == Erc20Conflicts(mods1, mods2)
        eoa == EoaConflicts(mods1, mods2)
        contract_call == ContractCallConflicts(mods1, mods2)
        \* lines 132, 145, 158, 171: is_dependent = True next to every append
        is_dependent == \/ same_source # <<>>
                        \/ erc20 # <<>>
                        \/ eoa # <<>>
                        \/ contract_call # <<>>
    IN  [dependent |-> is_dependent,
         conflicts |-> same_source \o erc20 \o eoa \o contract_call]

(***************************************************************************)
(* The provider: transaction hashes, traces and responses.                 *)
(***************************************************************************)
\* p occurs in s: the Python test  p in s
Contains(s, p) ==
    \E i \in 0..(Len(s) - Len(p)) : SubSeq(s, i + 1, i + Len(p)) = p

Str429 == <<"4", "2", "9">>

\* 32-byte transaction hashes, as tx['hash'].hex() gives them
HashA == Str0x \o Rep("a", 63) \o <<"1">>
HashB == Str0x \o Rep("b", 61) \o Str429
HashC == Str0x \o Rep("c", 63) \o <<"3">>
HashOrder == <<HashA, HashB, HashC>>

\* the blocks get_block may return: the first n transactions of HashOrder
Blocks == { SubSeq(HashOrder, 1, n) : n \in 0..Min(MaxTxs, Len(HashOrder)) }

AddrSender == Addr("a", "1")
AddrSenderMixed == Str0x \o Rep("A", 39) \o <<"1">>
AddrOther == Addr("b", "2")
AddrToken == Addr("c", "3")
AddrEoa == Addr("e", "5")
AddrEoa2 == Addr("f", "6")

Call(type, from, to, input, value, calls) ==
    [type |-> type, from |-> from, to |-> to, input |-> input, value |-> value,
     calls |-> calls]

\* approve(...) call data: selector and two 32-byte words
ApproveInput == ApproveSelector \o Rep("0", 128)

\* a plain value transfer from AddrSender to an EOA
TraceEth == [result |-> Call("CALL", AddrSender, AddrEoa, Str0x, Str0x1, <<>>)]
\* the same sender, written in mixed case, paying another EOA
TraceEthMixed == [result |-> Call("CALL", AddrSenderMixed, AddrEoa2, Str0x, Str0x1, <<>>)]
\* a contract call without value from another sender, with one internal call
TraceCall ==
    [result |-> Call("CALL", AddrOther, AddrToken, ApproveInput, Str0x0,
                     << Call("STATICCALL", AddrToken, AddrOther, ApproveInput, Missing, <<>>) >>)]
\* a trace whose internal call has no 'to' (analyze_trace raises KeyError)
TraceNoTo ==
    [result |-> Call("CALL", AddrOther, AddrToken, ApproveInput, Str0x0,
                     << Call("CREATE", AddrToken, Missing, Str0x, Str0x0, <<>>) >>)]

BlockTraces == {TraceEth, TraceEthMixed, TraceCall, TraceNoTo}

AddrEoaMixed == Str0x \o Rep("E", 39) \o <<"5">>
AddrToken2 == Addr("d", "4")

\* transfer(address,uint256) call data: the selector, the recipient padded to
\* 32 bytes and the amount 1 (138 characters)
TransferInput(recipient) ==
    TransferSelector \o Rep("0", 24) \o Slice(recipient, 2, 42) \o Rep("0", 63) \o <<"1">>
\* the same call data cut after the recipient word (74 characters)
ShortTransferInput(recipient) ==
    TransferSelector \o Rep("0", 24) \o Slice(recipient, 2, 42)

\* the calls a trace of the pair model is made of
CallEth == Call("CALL", AddrSender, AddrEoa, Str0x, Str0x1, <<>>)
CallApprove == Call("CALL", AddrOther, AddrToken, ApproveInput, Str0x0, <<CallEth>>)
CallTransfer == Call("CALL", AddrSender, AddrToken, TransferInput(AddrEoa), Str0x0, <<>>)
CallTransferOther == Call("CALL", AddrOther, AddrToken, TransferInput(AddrEoa2), Str0x0, <<>>)
CallTransferPaid ==
    Call("CALL", AddrOther, AddrToken, TransferInput(AddrEoaMixed), Str0x1, <<CallApprove>>)
CallTransferToken2 == Call("CALL", AddrSender, AddrToken2, TransferInput(AddrEoa), Str0x0, <<>>)
CallTransferShort == Call("CALL", AddrSender, AddrToken, ShortTransferInput(AddrEoa), Str0x0, <<>>)

\* CallEth with both addresses as a checksummed (mixed-case) string
CallEthMixed == Call("CALL", AddrSenderMixed, AddrEoaMixed, Str0x, Str0x1, <<>>)

PairCalls ==
    {CallEth, CallEthMixed, CallApprove, CallTransfer, CallTransferOther, CallTransferPaid,
     CallTransferToken2, CallTransferShort}

\* the sequences of at most n elements of S
RECURSIVE SeqsUpTo(_, _)
SeqsUpTo(S, n) ==
    IF n = 0 THEN {<<>>}
    ELSE LET shorter == SeqsUpTo(S, n - 1)
         IN  shorter \cup { Append(q, x) : q \in shorter, x \in S }

\* the calls found directly under the root call
InternalCalls == {CallEth, CallApprove, CallTransfer, CallTransferPaid}

\* the traces of the pair model: a root call of PairCalls whose 'calls' are
\* at most MaxCalls calls of InternalCalls (each with its own nested calls)
PairTraces ==
    { [result |-> Call(r.type, r.from, r.to, r.input, r.value, cs)] :
        r \in PairCalls, cs \in SeqsUpTo(InternalCalls, MaxCalls) }

\* the JSON-RPC error objects of the model: [code, message]
ErrorInfo(code, message) == [code |-> code, message |-> message]
\* a response without an 'error' dict
NoError == ErrorInfo(0, "")
ErrorInfos ==
    { ErrorInfo(429, "execution reverted"),
      ErrorInfo(0 - 32000, "Rate limit exceeded"),
      ErrorInfo(0 - 32000, "Too Many Requests"),
      ErrorInfo(0 - 32000, "too many open connections"),
      ErrorInfo(0 - 32000, "execution reverted") }

\* a response without a 'result' key
NoResult == [result |-> Call("<no result>", Missing, Missing, Missing, Missing, <<>>)]

\* A text is known by the needles it contains: '429', 'rate limit' and
\* 'too many' / 'too many requests' (after lower()).
Text(has429, hasRateLimit, hasTooMany, hasTooManyRequests) ==
    [has429 |-> has429, hasRateLimit |-> hasRateLimit, hasTooMany |-> hasTooMany,
     hasTooManyRequests |-> hasTooManyRequests]

\* an f-string of two parts contains a needle iff one of the parts does (the
\* literal pieces between them hold ': ' or ' ', which no needle crosses)
Join(a, b) ==
    Text(a.has429 \/ b.has429, a.hasRateLimit \/ b.hasRateLimit,
         a.hasTooMany \/ b.hasTooMany, a.hasTooManyRequests \/ b.hasTooManyRequests)

PlainText == Text(FALSE, FALSE, FALSE, FALSE)

HashText(tx_hash) == Text(Contains(tx_hash, Str429), FALSE, FALSE, FALSE)

\* str(error_info): "{'code': <code>, 'message': '<message>'}"
ErrorInfoText(e) ==
    Text(e.code = 429,
         e.message = "Rate limit exceeded",
         e.message \in {"Too Many Requests", "too many open connections"},
         e.message = "Too Many Requests")

\* the exceptions make_request itself may raise, by their str()
ExcHttp429 == Text(TRUE, FALSE, TRUE, TRUE)     \* "429 Client Error: Too Many Requests for url ..."
ExcTimeout == Text(FALSE, FALSE, FALSE, FALSE)  \* "HTTPConnectionPool(...): Read timed out."

JsonResponse(error, result) ==
    [kind |-> "json", error |-> error, result |-> result, text |-> PlainText]
RaisedResponse(text) ==
    [kind |-> "raised", error |-> NoError, result |-> NoResult, text |-> text]

\* before the first request of a call
NoResponse == [kind |-> "none", error |-> NoError, result |-> NoResult, text |-> PlainText]

\* what make_request may do: return a result, return an error object, return
\* neither, or raise
Responses ==
    { JsonResponse(NoError, t) : t \in BlockTraces }
    \cup { JsonResponse(e, NoResult) : e \in ErrorInfos }
    \cup { JsonResponse(NoError, NoResult) }
    \cup { RaisedResponse(ExcHttp429), RaisedResponse(ExcTimeout) }

(***************************************************************************)
(* worker.py: trace_transaction, one pass of the while loop.               *)
(***************************************************************************)
\* mutant: a linear backoff, RETRY_DELAY * retries
BackoffSleepLinear(n) == RETRY_DELAY * 1000 * n

\* mutant: the backoff capped at a ceiling of 60 s
BackoffSleepCapped(n) == Min(RETRY_DELAY * 1000 * Pow2(n - 1), 60 * 1000)

\* line 202, 218, 232: config.RETRY_DELAY * (2 ** (retries - 1)), in ms
BackoffSleep(n) == RETRY_DELAY * 1000 * Pow2(n - 1)

\* line 198
IsRateLimitError(error_info) ==
    \/ error_info.code = 429
    \/ ErrorInfoText(error_info).hasRateLimit
    \/ ErrorInfoText(error_info).hasTooManyRequests

Outcome(kind, n) == [kind |-> kind, retries |-> n]

\* mutant: the except clause retries without testing the budget
ExceptClauseNoBudget(last_error, n) ==
    IF last_error.has429 \/ last_error.hasRateLimit \/ last_error.hasTooMany
    THEN Outcome("retry", n + 1)
    ELSE Outcome("raise", n)

\* lines 228-236: the except clause, for the exception with str() = last_error
ExceptClause(last_error, n) ==
    IF n < MAX_RETRIES
       /\ (last_error.has429 \/ last_error.hasRateLimit \/ last_error.hasTooMany)
    THEN Outcome("retry", n + 1)
    ELSE Outcome("raise", n)

\* mutant: a response without 'result' raises at once instead of retrying
HandleResponseNoResultRaises(response, n, tx_hash) ==
    IF response.kind = "raised"
    THEN ExceptClause(response.text, n)
    ELSE IF response.error # NoError
         THEN IF IsRateLimitError(response.error)
              THEN IF n < MAX_RETRIES
                   THEN Outcome("retry", n + 1)
                   ELSE Outcome("raise", n)
              ELSE ExceptClause(
                       Join(HashText(tx_hash), ErrorInfoText(response.error)), n)
         ELSE IF response.result = NoResult
              THEN Outcome("raise", n)
              ELSE Outcome("return", n)

\* lines 186-236: what one pass does with the provider's answer, given the
\* retries used so far: "return" the response, "retry" (sleep, loop again)
\* or "raise" out of trace_transaction
HandleResponse(response, n, tx_hash) ==
    IF response.kind = "raised"
    THEN ExceptClause(response.text, n)
    ELSE IF response.error # NoError
         THEN IF IsRateLimitError(response.error)
              THEN IF n < MAX_RETRIES
                   THEN Outcome("retry", n + 1)
                   \* line 209: raised inside the try, so the except clause sees
                   \* "Rate limit exceeded after ... for tx <hash>: <error_info>"
                   ELSE ExceptClause(
                            Join(Text(FALSE, TRUE, FALSE, FALSE),
                                 Join(HashText(tx_hash), ErrorInfoText(response.error))), n)
              \* line 212: "API error for tx <hash>: <error_info>", raised
              \* inside the try
              ELSE ExceptClause(
                       Join(HashText(tx_hash), ErrorInfoText(response.error)), n)
         ELSE IF response.result = NoResult
              THEN IF n < MAX_RETRIES
                   THEN Outcome("retry", n + 1)
                   \* line 224: "Invalid response after ... for tx <hash>: <response>"
                   ELSE ExceptClause(HashText(tx_hash), n)
              ELSE Outcome("return", n)

(***************************************************************************)
(* worker.py: RateLimiter.acquire and the tail of analyze_block.           *)
(***************************************************************************)
\* mutant: the comparison of line 35 reversed
AcquireSleepReversed(time_since_last_call) ==
    IF time_since_last_call > MinInterval
    THEN time_since_last_call - MinInterval
    ELSE 0

\* lines 35-36: the sleep acquire asks for, given time.time() - last_call_time
AcquireSleep(time_since_last_call) ==
    IF time_since_last_call < MinInterval
    THEN MinInterval - time_since_last_call
    ELSE 0

\* the tuple analyze_block returns: (dependent txs, total txs, conflicts, failed)
BlockResult(dependent_txs, total, conflicts, failed) ==
    [dependent_txs |-> dependent_txs, total |-> total, conflicts |-> conflicts,
     failed |-> failed]

\* analyze_block has not returned yet
NoBlockResult == BlockResult({}, 0 - 1, <<>>, FALSE)

\* mutant: the failed block reported like the outer except clause does
TraceFailureResultNoTotal(hashes) == BlockResult({}, 0, <<>>, TRUE)

\* line 265: a trace could not be fetched
TraceFailureResult(hashes) == BlockResult({}, Len(hashes), <<>>, TRUE)

\* mutant: the outer except clause reports an empty block
OuterExceptResultNotFailed == BlockResult({}, 0, <<>>, FALSE)

\* line 288: the outer except clause
OuterExceptResult == BlockResult({}, 0, <<>>, TRUE)

\* combinations(range, 2) in the order itertools yields them
\* mutant: every transaction is also paired with itself
PairsInOrderWithSelf(n) ==
    Flatten([i \in 1..n |-> [k \in 1..(n - i + 1) |-> <<i, i + k - 1>>]])

PairsInOrder(n) ==
    Flatten([i \in 1..n |-> [k \in 1..(n - i) |-> <<i, i + k>>]])

\* lines 267-284, for the traces of the transactions in block order
AnalyzeTraces(hashes, fetched) ==
    IF \E i \in 1..Len(fetched) : analyze_trace_raises(fetched[i])
    THEN OuterExceptResult
    ELSE LET tx_modifications == [i \in 1..Len(fetched) |-> analyze_trace(fetched[i])]
             pairs == PairsInOrder(Len(fetched))
             check(p) == check_modifications_conflict(tx_modifications[p[1]],
                                                      tx_modifications[p[2]])
             dependent_txs ==
                 UNION { {hashes[pairs[k][1]], hashes[pairs[k][2]]} :
                             k \in { m \in 1..Len(pairs) : check(pairs[m]).dependent } }
             all_conflicts ==
                 Flatten([k \in 1..Len(pairs) |->
                             IF check(pairs[k]).dependent
                             THEN check(pairs[k]).conflicts ELSE <<>>])
         IN  BlockResult(dependent_txs, Len(hashes), all_conflicts, FALSE)

(***************************************************************************)
(* State.                                                                  *)
(***************************************************************************)
VARIABLES
    \* ---- analyze_block (worker.py) ----
    pc,             \* position in analyze_block: "start", "acquire", "request",
                    \* "call_returned", "call_raised", "analyze", "done"
    block,          \* the transactions of the block get_block returns
    txs,            \* line 249
    tx_idx,         \* the position of the for loop of line 257 in txs
    traces,         \* line 254: the traces fetched so far, in block order
    result,         \* what analyze_block returned
    \* ---- trace_transaction, the call in progress ----
    retries,        \* line 177
    sleep_time,     \* lines 202, 218, 232: the last backoff computed (ms)
    response,       \* what the provider did at the last request (a failed
                    \* block fetch or a request of trace_transaction)
    requests,       \* history: requests issued by this call
    backoff_total,  \* history: the sum of the backoffs slept by this call (ms)
    only429,        \* history: every earlier answer of this call was a JSON
                    \* error object with code 429
    n429,           \* history: the answers of this call that were a JSON error
                    \* object with code 429
    \* ---- RateLimiter ----
    clock,          \* time.time() - rate_limiter.last_call_time (ms)
    last_gap,       \* history: the time between the last two moments acquire
                    \* set last_call_time (the first: since __init__ set it)
    acquired,       \* history: acquire has returned since the last request
    unlimited,      \* history: a request was issued without acquire before it
    \* ---- analyze_chain (conflict_rate.py) ----
    chain_pc,       \* "loop", "done" (summary returned), "aborted" (raised),
                    \* "finished" (main left its loop)
    total_blocks,   \* line 36
    pending,        \* the blocks whose future has not been consumed yet
    all_dependent_txs, \* line 42
    total_txs,      \* line 43
    all_conflicts,  \* line 44
    failed_blocks,  \* line 45
    conflict_counts,\* line 47
    completed,      \* line 59
    conflicts,      \* the loop's local of line 62
    dependency_ratio,   \* line 86, as <<numerator, denominator>>
    block_success_rate, \* line 87, as <<numerator, denominator>>
    arrived,        \* history: the outcomes of the futures consumed, in order
    cpu_count,      \* line 39: what cpu_count() returns
    running,        \* the blocks a worker process of the pool is analysing
    \* ---- main (conflict_rate.py) ----
    chain_idx,      \* line 122: the position of chain_config in config.chains
    chain_results,  \* line 121
    \* ---- a pair of transactions in Modification mode (worker.py) ----
    pair_pc,        \* "traces", "modifications", "checked", "raised"
    trace1,         \* the trace of tx1
    trace2,         \* the trace of tx2
    modifications1, \* line 271: modifications_by_tx[tx1]
    modifications2, \* line 271: modifications_by_tx[tx2]
    check12,        \* line 276: check_modifications_conflict of tx1 and tx2
    check21,        \* the same call with its arguments exchanged
    \* ---- a pair of transactions in AccessSet mode (calc_indie_txn.py) ----
    access_pc,      \* "data", "sets", "compared"
    tx_data1,       \* line 164: the tx_data of tx1
    tx_data2,       \* line 164: the tx_data of tx2
    valid_tx_data,  \* lines 211-214: <<entry of tx1, entry of tx2>>
    dependent_pairs,\* line 157
    swapped_pairs   \* dependent_pairs when tx2 comes before tx1

blockVars == <<pc, block, txs, tx_idx, traces, result>>
callVars == <<retries, sleep_time, response, requests, backoff_total, only429, n429>>
limiterVars == <<clock, last_gap, acquired, unlimited>>
chainVars == <<chain_pc, total_blocks, pending, all_dependent_txs, total_txs,
               all_conflicts, failed_blocks, conflict_counts, completed, conflicts,
               dependency_ratio, block_success_rate, arrived, cpu_count, running,
               chain_idx, chain_results>>
pairVars == <<pair_pc, trace1, trace2, modifications1, modifications2, check12, check21>>
accessVars == <<access_pc, tx_data1, tx_data2, valid_tx_data, dependent_pairs, swapped_pairs>>
vars == <<blockVars, callVars, limiterVars, chainVars, pairVars, accessVars>>

(***************************************************************************)
(* conflict_rate.py: the values analyze_chain works on.                    *)
(***************************************************************************)
ConflictTypes ==
    {"same-source", "erc20-balance-conflict", "eoa-transfer-conflict",
     "contract-call-conflict"}

\* line 47: defaultdict(int), a count of 0 for every type not seen yet
NoCounts == [t \in ConflictTypes |-> 0]

\* the loop's local 'conflicts' before the first assignment of line 62
Unbound == <<Conflict(None, "<unbound>", <<>>)>>

\* mutant: a type is counted once per block, however many conflicts it has
CountConflictsOncePerBlock(counts, cs) ==
    [t \in ConflictTypes |->
        counts[t] + (IF \E i \in 1..Len(cs) : cs[i].type = t THEN 1 ELSE 0)]

\* lines 81-83
RECURSIVE CountConflicts(_, _)
CountConflicts(counts, cs) ==
    IF cs = <<>> THEN counts
    ELSE CountConflicts([counts EXCEPT ![Head(cs).type] = @ + 1], Tail(cs))

\* what awaiting a block's future gives: the tuple analyze_block returned, or
\* an exception (the worker process died: BrokenProcessPool)
FutureOutcome(raised, value) == [raised |-> raised, value |-> value]

\* the hash of the i-th transaction of block b
ChainHash(b, i) == <<b, i>>

SameSourceOf(b) ==
    Conflict(AddrSender, "same-source", <<"Multiple ETH transfers from same source address", AddrSender>>)
EoaConflictOf(b) ==
    Conflict(AddrEoa, "eoa-transfer-conflict", <<"Multiple transfers to same EOA", None>>)

\* the outcomes of the future of block b in the model: an empty block, a
\* block of 2 independent transactions, a block of 3 transactions with one
\* dependent pair, a block of 3 mutually dependent transactions, the two
\* failed results analyze_block returns (lines 265 and 288), an exception
FutureOutcomes(b) ==
    { FutureOutcome(FALSE, BlockResult({}, 0, <<>>, FALSE)),
      FutureOutcome(FALSE, BlockResult({}, 2, <<>>, FALSE)),
      FutureOutcome(FALSE, BlockResult({ChainHash(b, 1), ChainHash(b, 2)}, 3,
                                       <<SameSourceOf(b)>>, FALSE)),
      FutureOutcome(FALSE, BlockResult({ChainHash(b, 1), ChainHash(b, 2), ChainHash(b, 3)}, 3,
                                       <<SameSourceOf(b), EoaConflictOf(b), EoaConflictOf(b)>>,
                                       FALSE)),
      FutureOutcome(FALSE, BlockResult({}, 2, <<>>, TRUE)),
      FutureOutcome(FALSE, OuterExceptResult),
      FutureOutcome(TRUE, NoBlockResult) }

\* lines 65 and 73: future_to_block[future._future].  asyncio.as_completed
\* yields coroutine objects, which have no attribute _future, so evaluating
\* the subscript raises AttributeError.
FutureLookupRaises == TRUE

\* a / b as a fraction
Ratio(a, b) == <<a, b>>

\* mutant: dependent transactions per independent transaction
DependencyRatioToIndependent(dependent, total) ==
    LET unique_dependent_txs == { dependent[i] : i \in 1..Len(dependent) }
    IN  IF total > 0
        THEN Ratio(Cardinality(unique_dependent_txs), total - Cardinality(unique_dependent_txs))
        ELSE Ratio(0, 1)

\* lines 85-86
DependencyRatio(dependent, total) ==
    LET unique_dependent_txs == { dependent[i] : i \in 1..Len(dependent) }
    IN  IF total > 0 THEN Ratio(Cardinality(unique_dependent_txs), total) ELSE Ratio(0, 1)

\* line 87
BlockSuccessRate(blocks, failed) ==
    IF blocks > 0 THEN Ratio(blocks - failed, blocks) ELSE Ratio(0, 1)

(***************************************************************************)
(* analyze_block (worker.py, lines 241-288).                               *)
(***************************************************************************)
\* lines 177-178: trace_transaction starts
StartCall ==
    /\ retries' = 0
    /\ sleep_time' = 0
    /\ response' = NoResponse
    /\ requests' = 0
    /\ backoff_total' = 0
    /\ only429' = TRUE
    /\ n429' = 0

\* the value of check12 and check21 before line 276 ran
NoCheck == [dependent |-> FALSE, conflicts |-> <<>>]

PairIdle ==
    /\ pair_pc = "idle" /\ trace1 = <<>> /\ trace2 = <<>>
    /\ modifications1 = <<>> /\ modifications2 = <<>>
    /\ check12 = NoCheck /\ check21 = NoCheck

AccessIdle ==
    /\ access_pc = "idle" /\ tx_data1 = <<>> /\ tx_data2 = <<>>
    /\ valid_tx_data = <<>> /\ dependent_pairs = <<>> /\ swapped_pairs = <<>>

BlockIdle ==
    /\ pc = "idle" /\ block = <<>> /\ txs = <<>> /\ tx_idx = 0 /\ traces = <<>>
    /\ result = NoBlockResult
    /\ retries = 0 /\ sleep_time = 0 /\ response = NoResponse /\ requests = 0
    /\ backoff_total = 0 /\ only429 = TRUE /\ n429 = 0
    /\ clock = 0 /\ last_gap = 0 - 1 /\ acquired = FALSE /\ unlimited = FALSE

ChainIdle ==
    /\ chain_pc = "idle" /\ total_blocks = 0 /\ pending = {}
    /\ all_dependent_txs = <<>> /\ total_txs = 0 /\ all_conflicts = <<>>
    /\ failed_blocks = 0 /\ conflict_counts = NoCounts /\ completed = 0
    /\ conflicts = Unbound /\ dependency_ratio = <<0, 1>>
    /\ block_success_rate = <<0, 1>> /\ arrived = <<>>
    /\ cpu_count = 1 /\ running = {} /\ chain_idx = 0 /\ chain_results = <<>>

\* lines 243-244: the state when analyze_block has created its RateLimiter
BlockInit ==
    /\ pc = "start"
    /\ block \in Blocks
    /\ txs = <<>>
    /\ tx_idx = 0
    /\ traces = <<>>
    /\ result = NoBlockResult
    /\ retries = 0 /\ sleep_time = 0 /\ response = NoResponse /\ requests = 0
    /\ backoff_total = 0 /\ only429 = TRUE /\ n429 = 0
    /\ clock = 0
    /\ last_gap = 0 - 1
    /\ acquired = FALSE
    /\ unlimited = FALSE
    /\ ChainIdle /\ PairIdle /\ AccessIdle

\* line 248 raises e (the provider fails the block fetch: an HTTP 429, a
\* timeout): the except clause of lines 286-288 returns at once
FetchBlockFails(e) ==
    /\ pc = "start"
    /\ response' = RaisedResponse(e)
    /\ result' = OuterExceptResult
    /\ pc' = "done"
    /\ UNCHANGED <<block, txs, tx_idx, traces, retries, sleep_time, requests,
                   backoff_total, only429, n429>>
    /\ UNCHANGED <<limiterVars, chainVars, pairVars, accessVars>>

\* mutant: the block fetch goes through rate_limiter.acquire() first
FetchBlockAcquired(d) ==
    /\ pc = "start"
    /\ txs' = block
    /\ last_gap' = clock + AcquireSleep(clock)
    /\ clock' = d
    /\ IF block = <<>>
       THEN /\ result' = BlockResult({}, 0, <<>>, FALSE)
            /\ pc' = "done"
            /\ UNCHANGED <<tx_idx, callVars>>
       ELSE /\ tx_idx' = 1
            /\ StartCall
            /\ pc' = "acquire"
            /\ UNCHANGED result
    /\ UNCHANGED <<block, traces, acquired, unlimited, chainVars, pairVars, accessVars>>

\* lines 248-257: the block arrives after d ms; an empty block returns at once
FetchBlock(d) ==
    /\ pc = "start"
    /\ txs' = block
    /\ clock' = clock + d
    /\ IF block = <<>>
       THEN /\ result' = BlockResult({}, 0, <<>>, FALSE)
            /\ pc' = "done"
            /\ UNCHANGED <<tx_idx, callVars>>
       ELSE /\ tx_idx' = 1
            /\ StartCall
            /\ pc' = "acquire"
            /\ UNCHANGED result
    /\ UNCHANGED <<block, traces, last_gap, acquired, unlimited, chainVars, pairVars, accessVars>>

\* lines 180-181 and 31-39: the loop test, then rate_limiter.acquire();
\* time.sleep returns o ms late
Acquire(o) ==
    /\ pc = "acquire"
    /\ IF retries <= MAX_RETRIES
       THEN LET slept == IF AcquireSleep(clock) > 0 THEN AcquireSleep(clock) + o ELSE 0
            IN  /\ last_gap' = clock + slept
                /\ clock' = 0
                /\ acquired' = TRUE
                /\ pc' = "request"
       \* line 239: the loop ran out
       ELSE /\ pc' = "call_raised"
            /\ UNCHANGED <<clock, last_gap, acquired>>
    /\ UNCHANGED <<block, txs, tx_idx, traces, result, callVars, unlimited, chainVars, pairVars, accessVars>>

\* the provider answered with a JSON error object whose code is 429
Is429Answer(r) == r.kind = "json" /\ r.error # NoError /\ r.error.code = 429

\* lines 186-236: the provider answers r; a retry sleeps its backoff; d is
\* the time the request takes plus what time.sleep returns late
Request(r, d) ==
    /\ pc = "request"
    /\ LET out == HandleResponse(r, retries, txs[tx_idx])
       IN  /\ response' = r
           /\ requests' = requests + 1
           /\ acquired' = FALSE
           /\ unlimited' = (unlimited \/ ~acquired)
           /\ retries' = out.retries
           /\ n429' = IF Is429Answer(r) THEN n429 + 1 ELSE n429
           /\ IF out.kind = "retry"
              THEN /\ sleep_time' = BackoffSleep(out.retries)
                   /\ backoff_total' = backoff_total + BackoffSleep(out.retries)
                   /\ only429' = (only429 /\ Is429Answer(r))
                   /\ clock' = clock + d + BackoffSleep(out.retries)
                   /\ pc' = "acquire"
              ELSE /\ clock' = clock + d
                   /\ pc' = IF out.kind = "return" THEN "call_returned" ELSE "call_raised"
                   /\ UNCHANGED <<sleep_time, backoff_total, only429>>
    /\ UNCHANGED <<block, txs, tx_idx, traces, result, last_gap, chainVars, pairVars, accessVars>>

\* lines 259-260 and 257: the trace is stored and the loop goes on
StoreTrace ==
    /\ pc = "call_returned"
    /\ traces' = Append(traces, response.result)
    /\ IF tx_idx < Len(txs)
       THEN /\ tx_idx' = tx_idx + 1
            /\ StartCall
            /\ pc' = "acquire"
       ELSE /\ pc' = "analyze"
            /\ UNCHANGED <<tx_idx, callVars>>
    /\ UNCHANGED <<block, txs, result, limiterVars, chainVars, pairVars, accessVars>>

\* mutant: a failed trace is skipped and the loop goes on with the next
\* transaction
TraceFailedGoesOn ==
    /\ pc = "call_raised"
    /\ IF tx_idx < Len(txs)
       THEN /\ tx_idx' = tx_idx + 1
            /\ StartCall
            /\ pc' = "acquire"
            /\ UNCHANGED result
       ELSE /\ result' = TraceFailureResult(txs)
            /\ pc' = "done"
            /\ UNCHANGED <<tx_idx, callVars>>
    /\ UNCHANGED <<block, txs, traces, limiterVars, chainVars, pairVars, accessVars>>

\* lines 261-265: trace_transaction raised
TraceFailed ==
    /\ pc = "call_raised"
    /\ result' = TraceFailureResult(txs)
    /\ pc' = "done"
    /\ UNCHANGED <<block, txs, tx_idx, traces, callVars, limiterVars, chainVars, pairVars, accessVars>>

\* lines 267-284 (and 286-288 when analyze_trace raises)
Analyze ==
    /\ pc = "analyze"
    /\ result' = AnalyzeTraces(txs, traces)
    /\ pc' = "done"
    /\ UNCHANGED <<block, txs, tx_idx, traces, callVars, limiterVars, chainVars, pairVars, accessVars>>

BlockNext ==
    \/ \E e \in {ExcHttp429, ExcTimeout} : FetchBlockFails(e)
    \/ \E d \in Delays : FetchBlock(d)
    \/ \E o \in Delays : Acquire(o)
    \/ \E r \in Responses, d \in Delays : Request(r, d)
    \/ StoreTrace
    \/ TraceFailed
    \/ Analyze

SpecBlock == BlockInit /\ [][BlockNext]_vars

(***************************************************************************)
(* analyze_chain (conflict_rate.py, lines 24-115).                         *)
(***************************************************************************)
\* lines 36-59 (for the first chain of config.chains): the futures are
\* submitted, no worker has taken a block yet, nothing is aggregated yet
ChainInit ==
    /\ chain_pc = "loop"
    /\ total_blocks \in 1..MaxBlocks
    /\ pending = 1..total_blocks
    /\ all_dependent_txs = <<>>
    /\ total_txs = 0
    /\ all_conflicts = <<>>
    /\ failed_blocks = 0
    /\ conflict_counts = NoCounts
    /\ completed = 0
    /\ conflicts = Unbound
    /\ dependency_ratio = Ratio(0, 1)
    /\ block_success_rate = Ratio(0, 1)
    /\ arrived = <<>>
    /\ cpu_count \in 1..MaxCpus
    /\ running = {}
    /\ chain_idx = 1
    /\ chain_results = <<>>
    /\ BlockIdle /\ PairIdle /\ AccessIdle

\* line 39
num_processes == Max(1, cpu_count - 1)

\* ProcessPoolExecutor (line 53): a free worker process takes the block that
\* was submitted first among those no worker has taken yet
StartTask ==
    /\ chain_pc = "loop"
    /\ pending \ running # {}
    /\ Cardinality(running) < num_processes
    /\ LET queued == pending \ running
           b == CHOOSE x \in queued : \A y \in queued : x <= y
       IN  running' = running \cup {b}
    /\ UNCHANGED <<chain_pc, total_blocks, pending, all_dependent_txs, total_txs,
                   all_conflicts, failed_blocks, conflict_counts, completed, conflicts,
                   dependency_ratio, block_success_rate, arrived>>
    /\ UNCHANGED <<cpu_count, chain_idx, chain_results>>
    /\ UNCHANGED <<blockVars, callVars, limiterVars, pairVars, accessVars>>

\* lines 76-83: the tail of one pass of the loop
LoopTail(cs) ==
    /\ completed' = completed + 1
    /\ conflict_counts' = IF cs = Unbound THEN conflict_counts
                          ELSE CountConflicts(conflict_counts, cs)
    \* line 81 reads an unbound local: UnboundLocalError leaves analyze_chain
    /\ chain_pc' = IF cs = Unbound THEN "aborted" ELSE chain_pc

\* mutant: total_txs keeps the total of the result that arrived last
ResultOkLastTotal(b, o) ==
    /\ chain_pc = "loop"
    /\ b \in running
    /\ ~o.raised /\ ~o.value.failed
    /\ pending' = pending \ {b}
    /\ running' = running \ {b}
    /\ arrived' = Append(arrived, o)
    /\ conflicts' = o.value.conflicts
    /\ all_dependent_txs' = all_dependent_txs \o SetToSeq(o.value.dependent_txs)
    /\ total_txs' = o.value.total
    /\ all_conflicts' = all_conflicts \o o.value.conflicts
    /\ LoopTail(o.value.conflicts)
    /\ UNCHANGED <<total_blocks, failed_blocks, dependency_ratio, block_success_rate>>
    /\ UNCHANGED <<cpu_count, chain_idx, chain_results>>
    /\ UNCHANGED <<blockVars, callVars, limiterVars, pairVars, accessVars>>

\* lines 62-63, 67-70, 76-83: the future of block b gives a result that is
\* not failed
ResultOk(b, o) ==
    /\ chain_pc = "loop"
    /\ b \in running
    /\ ~o.raised /\ ~o.value.failed
    /\ pending' = pending \ {b}
    /\ running' = running \ {b}
    /\ arrived' = Append(arrived, o)
    /\ conflicts' = o.value.conflicts
    /\ all_dependent_txs' = all_dependent_txs \o SetToSeq(o.value.dependent_txs)
    /\ total_txs' = total_txs + o.value.total
    /\ all_conflicts' = all_conflicts \o o.value.conflicts
    /\ LoopTail(o.value.conflicts)
    /\ UNCHANGED <<total_blocks, failed_blocks, dependency_ratio, block_success_rate>>
    /\ UNCHANGED <<cpu_count, chain_idx, chain_results>>
    /\ UNCHANGED <<blockVars, callVars, limiterVars, pairVars, accessVars>>

\* mutant: a failed result adds its total to total_txs
ResultFailedCounted(b, o) ==
    /\ chain_pc = "loop"
    /\ b \in running
    /\ ~o.raised /\ o.value.failed
    /\ pending' = pending \ {b}
    /\ running' = running \ {b}
    /\ arrived' = Append(arrived, o)
    /\ conflicts' = o.value.conflicts
    /\ total_txs' = total_txs + o.value.total
    /\ failed_blocks' = failed_blocks + 2
    /\ chain_pc' = "aborted"
    /\ UNCHANGED <<completed, conflict_counts>>
    /\ UNCHANGED <<total_blocks, all_dependent_txs, all_conflicts,
                   dependency_ratio, block_success_rate>>
    /\ UNCHANGED <<cpu_count, chain_idx, chain_results>>
    /\ UNCHANGED <<blockVars, callVars, limiterVars, pairVars, accessVars>>

\* lines 62-66, 71-74: the future of block b gives a failed result
ResultFailed(b, o) ==
    /\ chain_pc = "loop"
    /\ b \in running
    /\ ~o.raised /\ o.value.failed
    /\ pending' = pending \ {b}
    /\ running' = running \ {b}
    /\ arrived' = Append(arrived, o)
    /\ conflicts' = o.value.conflicts
    /\ IF FutureLookupRaises
       \* line 64 counts the block, line 65 raises AttributeError inside the
       \* try, line 72 counts the block again, line 73 raises AttributeError
       \* inside the except clause: the exception leaves analyze_chain
       THEN /\ failed_blocks' = failed_blocks + 2
            /\ chain_pc' = "aborted"
            /\ UNCHANGED <<completed, conflict_counts>>
       ELSE /\ failed_blocks' = failed_blocks + 1
            /\ LoopTail(o.value.conflicts)
    /\ UNCHANGED <<total_blocks, all_dependent_txs, total_txs, all_conflicts,
                   dependency_ratio, block_success_rate>>
    /\ UNCHANGED <<cpu_count, chain_idx, chain_results>>
    /\ UNCHANGED <<blockVars, callVars, limiterVars, pairVars, accessVars>>

\* lines 62, 71-74: awaiting the future of block b raises
FutureRaised(b, o) ==
    /\ chain_pc = "loop"
    /\ b \in running
    /\ o.raised
    /\ pending' = pending \ {b}
    /\ running' = running \ {b}
    /\ arrived' = Append(arrived, o)
    /\ failed_blocks' = failed_blocks + 1
    /\ IF FutureLookupRaises
       \* line 73 raises AttributeError inside the except clause
       THEN /\ chain_pc' = "aborted"
            /\ UNCHANGED <<completed, conflict_counts>>
       \* line 81 then reads the conflicts of the pass before
       ELSE LoopTail(conflicts)
    /\ UNCHANGED <<total_blocks, all_dependent_txs, total_txs, all_conflicts, conflicts,
                   dependency_ratio, block_success_rate>>
    /\ UNCHANGED <<cpu_count, chain_idx, chain_results>>
    /\ UNCHANGED <<blockVars, callVars, limiterVars, pairVars, accessVars>>

\* lines 85-115: every future was consumed; the summary is returned
Finish ==
    /\ chain_pc = "loop"
    /\ pending = {}
    /\ dependency_ratio' = DependencyRatio(all_dependent_txs, total_txs)
    /\ block_success_rate' = BlockSuccessRate(total_blocks, failed_blocks)
    /\ chain_pc' = "done"
    /\ UNCHANGED <<total_blocks, pending, all_dependent_txs, total_txs, all_conflicts,
                   failed_blocks, conflict_counts, completed, conflicts, arrived,
                   running>>
    /\ UNCHANGED <<cpu_count, chain_idx, chain_results>>
    /\ UNCHANGED <<blockVars, callVars, limiterVars, pairVars, accessVars>>

ChainNext ==
    \/ StartTask
    \/ \E b \in running : \E o \in FutureOutcomes(b) : ResultOk(b, o)
    \/ \E b \in running : \E o \in FutureOutcomes(b) : ResultFailed(b, o)
    \/ \E b \in running : \E o \in FutureOutcomes(b) : FutureRaised(b, o)
    \/ Finish

SpecChain == ChainInit /\ [][ChainNext]_vars

(***************************************************************************)
(* main (conflict_rate.py, lines 118-142): analyze_chain on every chain of *)
(* config.chains, one after the other.                                     *)
(***************************************************************************)
\* config.py, lines 11-36
chains ==
    << [name |-> "Mantle", block_time |-> 2],
       [name |-> "Ethereum", block_time |-> 12],
       [name |-> "Optimism", block_time |-> 2] >>

\* lines 105-115: the dict analyze_chain returns (without analysis_time)
Summary ==
    [ chain_name             |-> chains[chain_idx].name,
      total_blocks           |-> total_blocks,
      failed_blocks          |-> failed_blocks,
      block_success_rate     |-> block_success_rate,
      total_transactions     |-> total_txs,
      dependent_transactions |-> Cardinality({ all_dependent_txs[i] :
                                                 i \in 1..Len(all_dependent_txs) }),
      dependency_ratio       |-> dependency_ratio,
      conflict_counts        |-> conflict_counts ]

\* the outcomes of the future of block b in a run over all chains: an empty
\* block, a block of 3 transactions with one dependent pair, a failed
\* result, an exception
MainOutcomes(b) ==
    { FutureOutcome(FALSE, BlockResult({}, 0, <<>>, FALSE)),
      FutureOutcome(FALSE, BlockResult({ChainHash(b, 1), ChainHash(b, 2)}, 3,
                                       <<SameSourceOf(b)>>, FALSE)),
      FutureOutcome(FALSE, OuterExceptResult),
      FutureOutcome(TRUE, NoBlockResult) }

\* mutant: the next chain is started while results of this one are pending
NextChainEarly ==
    /\ chain_pc = "loop"
    /\ completed >= 1
    /\ chain_idx <= Len(chains)
    /\ chain_results' = Append(chain_results, Summary)
    /\ chain_idx' = chain_idx + 1
    /\ IF chain_idx < Len(chains)
       THEN /\ chain_pc' = "loop"
            /\ total_blocks' \in 1..MaxBlocks
            /\ pending' = 1..total_blocks'
            /\ running' = {}
            /\ all_dependent_txs' = <<>>
            /\ total_txs' = 0
            /\ all_conflicts' = <<>>
            /\ failed_blocks' = 0
            /\ conflict_counts' = NoCounts
            /\ completed' = 0
            /\ conflicts' = Unbound
            /\ dependency_ratio' = Ratio(0, 1)
            /\ block_success_rate' = Ratio(0, 1)
            /\ arrived' = <<>>
       ELSE /\ chain_pc' = "finished"
            /\ UNCHANGED <<total_blocks, pending, running, all_dependent_txs, total_txs,
                           all_conflicts, failed_blocks, conflict_counts, completed,
                           conflicts, dependency_ratio, block_success_rate, arrived>>
    /\ UNCHANGED cpu_count
    /\ UNCHANGED <<blockVars, callVars, limiterVars, pairVars, accessVars>>

\* lines 122-124: analyze_chain returned its summary; it is appended and the
\* loop goes on with the next chain (lines 25-59 of analyze_chain), or ends
NextChain ==
    /\ chain_pc = "done"
    /\ chain_idx <= Len(chains)
    /\ chain_results' = Append(chain_results, Summary)
    /\ chain_idx' = chain_idx + 1
    /\ IF chain_idx < Len(chains)
       THEN /\ chain_pc' = "loop"
            /\ total_blocks' \in 1..MaxBlocks
            /\ pending' = 1..total_blocks'
            /\ running' = {}
            /\ all_dependent_txs' = <<>>
            /\ total_txs' = 0
            /\ all_conflicts' = <<>>
            /\ failed_blocks' = 0
            /\ conflict_counts' = NoCounts
            /\ completed' = 0
            /\ conflicts' = Unbound
            /\ dependency_ratio' = Ratio(0, 1)
            /\ block_success_rate' = Ratio(0, 1)
            /\ arrived' = <<>>
       ELSE /\ chain_pc' = "finished"
            /\ UNCHANGED <<total_blocks, pending, running, all_dependent_txs, total_txs,
                           all_conflicts, failed_blocks, conflict_counts, completed,
                           conflicts, dependency_ratio, block_success_rate, arrived>>
    /\ UNCHANGED cpu_count
    /\ UNCHANGED <<blockVars, callVars, limiterVars, pairVars, accessVars>>

MainNext ==
    \/ StartTask
    \/ \E b \in running : \E o \in MainOutcomes(b) : ResultOk(b, o)
    \/ \E b \in running : \E o \in MainOutcomes(b) : ResultFailed(b, o)
    \/ \E b \in running : \E o \in MainOutcomes(b) : FutureRaised(b, o)
    \/ Finish
    \/ NextChain

SpecMain == ChainInit /\ [][MainNext]_vars

(***************************************************************************)
(* A pair of transactions of one block in Modification mode (worker.py,    *)
(* lines 267-282): analyze_trace on both traces, then                      *)
(* check_modifications_conflict on the two lists of Modifications.         *)
(***************************************************************************)
PairInit ==
    /\ pair_pc = "traces"
    /\ trace1 \in PairTraces
    /\ trace2 \in PairTraces
    /\ modifications1 = <<>>
    /\ modifications2 = <<>>
    /\ check12 = NoCheck
    /\ check21 = NoCheck
    /\ BlockIdle /\ ChainIdle /\ AccessIdle

\* lines 268-271: modifications_by_tx[tx_hash] = analyze_trace(trace)
AnalyzePair ==
    /\ pair_pc = "traces"
    /\ IF analyze_trace_raises(trace1) \/ analyze_trace_raises(trace2)
       THEN /\ pair_pc' = "raised"
            /\ UNCHANGED <<modifications1, modifications2>>
       ELSE /\ modifications1' = analyze_trace(trace1)
            /\ modifications2' = analyze_trace(trace2)
            /\ pair_pc' = "modifications"
    /\ UNCHANGED <<trace1, trace2, check12, check21>>
    /\ UNCHANGED <<blockVars, callVars, limiterVars, chainVars, accessVars>>

\* lines 275-279: the pair is compared (and, for the comparison of the two
\* orders, compared again with the arguments exchanged)
CheckPair ==
    /\ pair_pc = "modifications"
    /\ check12' = check_modifications_conflict(modifications1, modifications2)
    /\ check21' = check_modifications_conflict(modifications2, modifications1)
    /\ pair_pc' = "checked"
    /\ UNCHANGED <<trace1, trace2, modifications1, modifications2>>
    /\ UNCHANGED <<blockVars, callVars, limiterVars, chainVars, accessVars>>

(***************************************************************************)
(* A pair of transactions of one block in AccessSet mode                   *)
(* (calc_indie_txn.py, analyze_block_dependencies, lines 141-248).         *)
(*                                                                         *)
(* A tx_data is None (the fetch failed) or [trace, transaction, receipt]:  *)
(* trace is the prestateTracer result, a set of entries                    *)
(* [address, balance, nonce, code, storage] telling which keys the state   *)
(* dict of the address holds and which slots its 'storage' has;            *)
(* transaction is [from, to]; receipt is [contractAddress, logs], a log    *)
(* being [address, topics].  A key of a read or write set is the tuple     *)
(* (address, field), written [address, field, slot]: the field               *)
(* 'storage:<slot>' has field "storage" and the slot, every other field    *)
(* has the slot "".                                                        *)
(***************************************************************************)
Key(address, field, slot) == [address |-> address, field |-> field, slot |-> slot]

StateEntry(address, balance, nonce, code, storage) ==
    [address |-> address, balance |-> balance, nonce |-> nonce, code |-> code,
     storage |-> storage]

Log(address, topics) == [address |-> address, topics |-> topics]

TxData(trace, from, to, contractAddress, logs) ==
    [trace |-> trace,
     transaction |-> [from |-> from, to |-> to],
     receipt |-> [contractAddress |-> contractAddress, logs |-> logs]]

\* get_transaction_data returned None
NoTxData == TxData({}, None, None, None, <<"<no data>">>)

\* lines 174-185: the reads of the prestate trace
Reads(trace) ==
    UNION { (IF e.balance THEN {Key(Lower(e.address), "balance", "")} ELSE {})
            \cup (IF e.nonce THEN {Key(Lower(e.address), "nonce", "")} ELSE {})
            \cup {Key(Lower(e.address), "storage", slot) : slot \in e.storage}
            \cup (IF e.code THEN {Key(Lower(e.address), "code", "")} ELSE {})
          : e \in trace }

\* lines 187-209: the writes of the transaction and of its receipt
Writes(tx, tx_receipt) ==
    LET sender == Lower(tx.from)
    IN  {Key(sender, "nonce", ""), Key(sender, "balance", "")}
        \cup (IF tx.to # None THEN {Key(Lower(tx.to), "balance", "")} ELSE {})
        \cup (IF tx_receipt.contractAddress # None
              THEN LET contract_addr == Lower(tx_receipt.contractAddress)
                   IN  {Key(contract_addr, "code", ""), Key(contract_addr, "nonce", ""),
                        Key(contract_addr, "balance", "")}
              ELSE {})
        \cup UNION { { Key(Lower(tx_receipt.logs[i].address), "storage",
                           tx_receipt.logs[i].topics[j]) :
                         j \in 1..Len(tx_receipt.logs[i].topics) } :
                     i \in 1..Len(tx_receipt.logs) }

\* lines 211-214: the entry of valid_tx_data
AccessEntry(tx_hash, tx_data) ==
    [tx_hash |-> tx_hash,
     reads |-> Reads(tx_data.trace),
     writes |-> Writes(tx_data.transaction, tx_data.receipt)]

\* lines 163-217: the entries of the tx_data that are not None, in order
ValidTxData(hashes, datas) ==
    Flatten([i \in 1..Len(datas) |->
                IF datas[i] = NoTxData THEN <<>> ELSE <<AccessEntry(hashes[i], datas[i])>>])

\* mutant: the writes of tx1 are not compared with the reads of tx2
ComparePairNoWriteRead(entry1, entry2) ==
    LET write_conflicts == entry1.writes \cap entry2.writes
        read_write_conflicts == entry1.reads \cap entry2.writes
    IN  IF write_conflicts # {} \/ read_write_conflicts # {}
        THEN << [tx1 |-> entry1.tx_hash,
                 tx2 |-> entry2.tx_hash,
                 conflicts |->
                    [write_conflicts |-> SetToSeq(write_conflicts),
                     read_write_conflicts |-> SetToSeq(read_write_conflicts),
                     write_read_conflicts |-> <<>>]] >>
        ELSE <<>>

\* lines 221-237: what comparing one pair appends to dependent_pairs
ComparePair(entry1, entry2) ==
    LET write_conflicts == entry1.writes \cap entry2.writes
        read_write_conflicts == entry1.reads \cap entry2.writes
        write_read_conflicts == entry1.writes \cap entry2.reads
    IN  IF write_conflicts # {} \/ read_write_conflicts # {} \/ write_read_conflicts # {}
        THEN << [tx1 |-> entry1.tx_hash,
                 tx2 |-> entry2.tx_hash,
                 conflicts |->
                    [write_conflicts |-> SetToSeq(write_conflicts),
                     read_write_conflicts |-> SetToSeq(read_write_conflicts),
                     write_read_conflicts |-> SetToSeq(write_read_conflicts)]] >>
        ELSE <<>>

\* lines 219-237: combinations(valid_tx_hashes, 2)
DependentPairs(valid) ==
    Flatten([k \in 1..Len(PairsInOrder(Len(valid))) |->
                ComparePair(valid[PairsInOrder(Len(valid))[k][1]],
                            valid[PairsInOrder(Len(valid))[k][2]])])

Slot1 == <<"0", "x", "0", "1">>
Slot2 == <<"0", "x", "0", "2">>

\* the prestate entries, the logs and the tx_data of the model
StateEntries ==
    { StateEntry(AddrSenderMixed, TRUE, TRUE, FALSE, {}),
      StateEntry(AddrEoa, TRUE, FALSE, FALSE, {}),
      StateEntry(AddrToken, FALSE, FALSE, TRUE, {Slot1}) }

Logs == { Log(AddrToken, <<Slot1>>), Log(AddrToken2, <<Slot1, Slot2>>) }

TxDatas ==
    { TxData(trace, tx[1], tx[2], tx[3], logs) :
        trace \in SUBSET StateEntries,
        tx \in { <<AddrSender, AddrEoa, None>>, <<AddrSenderMixed, AddrEoa2, None>>,
                 <<AddrOther, AddrEoa, None>>, <<AddrOther, None, AddrToken>> },
        logs \in SeqsUpTo(Logs, MaxLogs) }
    \cup {NoTxData}

AccessInit ==
    /\ access_pc = "data"
    /\ tx_data1 \in TxDatas
    /\ tx_data2 \in TxDatas
    /\ valid_tx_data = <<>>
    /\ dependent_pairs = <<>>
    /\ swapped_pairs = <<>>
    /\ BlockIdle /\ ChainIdle /\ PairIdle

\* lines 163-217
ExtractAccess ==
    /\ access_pc = "data"
    /\ valid_tx_data' = ValidTxData(<<HashA, HashC>>, <<tx_data1, tx_data2>>)
    /\ access_pc' = "sets"
    /\ UNCHANGED <<tx_data1, tx_data2, dependent_pairs, swapped_pairs>>
    /\ UNCHANGED <<blockVars, callVars, limiterVars, chainVars, pairVars>>

\* lines 219-237 (and, for the comparison of the two orders, the same lines
\* on the block whose two transactions are exchanged)
CompareAccess ==
    /\ access_pc = "sets"
    /\ dependent_pairs' = DependentPairs(valid_tx_data)
    /\ swapped_pairs' = DependentPairs(ValidTxData(<<HashC, HashA>>, <<tx_data2, tx_data1>>))
    /\ access_pc' = "compared"
    /\ UNCHANGED <<tx_data1, tx_data2, valid_tx_data>>
    /\ UNCHANGED <<blockVars, callVars, limiterVars, chainVars, pairVars>>

(***************************************************************************)
(* Conflict detection on a pair of transactions, in either mode.           *)
(***************************************************************************)
DetectInit ==
    \/ PairInit
    \/ AccessInit

DetectNext ==
    \/ AnalyzePair
    \/ CheckPair
    \/ ExtractAccess
    \/ CompareAccess

SpecDetect == DetectInit /\ [][DetectNext]_vars

(***************************************************************************)
(* Properties of analyze_block and trace_transaction (SpecBlock).          *)
(***************************************************************************)
\* the provider's answer carried a 'result' and no error object
IsValidAnswer(r) == r.kind = "json" /\ r.error = NoError /\ r.result # NoResult

\* the provider's answer carried neither an error object nor a 'result'
Malformed == JsonResponse(NoError, NoResult)

\* the answers that carry a rate-limit error object (line 198)
RateLimitAnswers ==
    { JsonResponse(e, NoResult) : e \in { x \in ErrorInfos : IsRateLimitError(x) } }

\* the answers that carry an error object that is no rate-limit signal
OtherErrorAnswers ==
    { JsonResponse(e, NoResult) : e \in { x \in ErrorInfos : ~IsRateLimitError(x) } }

\* analyze_block returned because a trace_transaction call raised: fewer
\* traces were stored than the block has transactions
TraceFetchFailed == pc = "done" /\ Len(traces) < Len(txs)

\* C1: when trace_transaction raises for a transaction of a block of N >= 1
\* transactions, analyze_block returns failed = true, totalTx = N, no
\* dependent hashes and no conflicts, whichever transaction failed and however
\* many traces were stored before.
C1_TraceFailureFailsBlock ==
    /\ pc = "call_raised" => Len(txs) >= 1 /\ Len(traces) = tx_idx - 1
    /\ TraceFetchFailed =>
          /\ result.failed = TRUE
          /\ result.total = Len(block)
          /\ Len(block) >= 1
          /\ result.dependent_txs = {}
          /\ result.conflicts = <<>>

\* C1 witness: the second transaction's trace failed after the first was stored
C1_Witness ==
    /\ TraceFetchFailed
    /\ Len(traces) = 1
    /\ tx_idx = 2
    /\ result = BlockResult({}, 2, <<>>, TRUE)

\* C5: the retry counter never exceeds MAX_RETRIES and one call issues at most
\* MAX_RETRIES + 1 requests: every request that does not end the call used up
\* one retry of the single budget, whatever the provider answered, so the
\* loop ends after at most MAX_RETRIES + 1 passes.
C5_RetryBudgetBounded ==
    /\ retries <= MAX_RETRIES
    /\ requests <= MAX_RETRIES + 1
    /\ pc \in {"acquire", "request"} => requests = retries
    /\ pc \in {"call_returned", "call_raised"} => requests = retries + 1

\* C5 witness: a call failed after MAX_RETRIES + 1 requests whose retries were
\* spent on rate-limit answers and on other retried answers alike
C5_Witness ==
    /\ pc = "call_raised"
    /\ requests = MAX_RETRIES + 1
    /\ retries = MAX_RETRIES
    /\ n429 > 0
    /\ n429 < MAX_RETRIES

\* C6 (as claimed): an answer with an error object that is no rate-limit
\* signal fails the call on that attempt: the call is never back in its loop
\* with such an answer as its last one.
C6_OtherErrorFailsAtOnce ==
    response \in OtherErrorAnswers => pc \in {"call_raised", "done"}

\* C7: an answer without 'result' is handled like a rate-limit answer: at
\* every request the two have the same outcome; when the call loops again
\* after it, one retry was used and the backoff of that retry number was
\* slept; the call fails on it only when MAX_RETRIES retries are used; it
\* never returns it.
C7_MalformedLikeRateLimit ==
    /\ pc = "request" =>
          \A rl \in RateLimitAnswers :
              HandleResponse(Malformed, retries, txs[tx_idx])
                  = HandleResponse(rl, retries, txs[tx_idx])
    /\ (response = Malformed /\ pc \in {"acquire", "request"}) =>
          /\ retries >= 1
          /\ requests = retries
          /\ sleep_time = RETRY_DELAY * 1000 * Pow2(retries - 1)
    /\ (response = Malformed /\ pc = "call_raised") =>
          /\ retries = MAX_RETRIES
          /\ requests = MAX_RETRIES + 1
    /\ response = Malformed => pc \in {"acquire", "request", "call_raised", "done"}

\* C7 witness: after two rate-limit answers a malformed answer used the third
\* retry of the same budget and slept the third backoff
C7_Witness ==
    /\ response = Malformed
    /\ pc = "acquire"
    /\ n429 = 2
    /\ retries = 3
    /\ sleep_time = 8000

\* C8: when the first k answers are 429 rate-limit errors and the next one
\* carries a result, the call returns after exactly k + 1 requests and has
\* slept backoffs of at least RETRY_DELAY * (2^0 + ... + 2^(k-1)) seconds.
C8_SucceedsAfterRateLimits ==
    (IsValidAnswer(response) /\ only429) =>
        /\ pc # "call_raised"
        /\ pc # "acquire" /\ pc # "request"
        /\ n429 <= MAX_RETRIES
        /\ pc = "call_returned" =>
              /\ requests = n429 + 1
              /\ backoff_total >= RETRY_DELAY * 1000 * (Pow2(n429) - 1)

\* C8 witness: three 429 answers, then a result
C8_Witness ==
    /\ pc = "call_returned"
    /\ IsValidAnswer(response)
    /\ only429
    /\ n429 = 3
    /\ requests = 4
    /\ backoff_total = 14000

C10_RequestsRateLimited ==
    /\ ~unlimited
    /\ pc = "request" => acquired
    /\ last_gap = 0 - 1 \/ last_gap >= MinInterval
    /\ acquired => last_gap >= MinInterval /\ clock = 0
    /\ MinInterval = 200

\* C10 witness: the second transaction's first request, right after the
\* first transaction's trace arrived: acquire slept to fill the interval
C10_Witness ==
    /\ pc = "request"
    /\ tx_idx = 2
    /\ requests = 0
    /\ acquired
    /\ last_gap = MinInterval

(***************************************************************************)
(* Properties of analyze_chain (SpecChain).                                *)
(***************************************************************************)
\* the sum of totalTx over the BlockResults among the first n outcomes that
\* arrived and satisfy the test (1: every result, 2: results not failed)
RECURSIVE SumTotals(_, _)
SumTotals(n, onlyOk) ==
    IF n = 0 THEN 0
    ELSE SumTotals(n - 1, onlyOk)
         + (IF ~arrived[n].raised /\ (~onlyOk \/ ~arrived[n].value.failed)
            THEN arrived[n].value.total ELSE 0)

\* the union of the dependent-hash sets of the BlockResults that arrived
ArrivedDependents ==
    UNION { arrived[i].value.dependent_txs :
                i \in { j \in 1..Len(arrived) : ~arrived[j].raised } }

\* the outcomes that arrived and were a failed result or an exception
ArrivedFailures ==
    { i \in 1..Len(arrived) : arrived[i].raised \/ arrived[i].value.failed }

\* C2 (as claimed): total_txs is the sum of totalTx over every BlockResult
\* that arrived, failed or not.
C2_TotalCountsEveryResult == total_txs = SumTotals(Len(arrived), FALSE)

\* C2 (amended): total_txs is the sum of totalTx over the BlockResults that
\* arrived with failed = false; a failed result adds nothing.
C2_TotalCountsOkResults == total_txs = SumTotals(Len(arrived), TRUE)

\* C2 witness: after a result of 3 transactions, a failed result that reports
\* 2 transactions arrived and total_txs is still 3
C2_Witness ==
    /\ Len(arrived) = 2
    /\ ~arrived[1].raised /\ ~arrived[1].value.failed /\ arrived[1].value.total = 3
    /\ ~arrived[2].raised /\ arrived[2].value.failed /\ arrived[2].value.total = 2
    /\ total_txs = 3

\* C3: when analyze_chain returns, dependency_ratio is the number of distinct
\* hashes in the union of the arrived dependent-hash sets over total_txs, and
\* 0 when total_txs is 0.
C3_DependencyRatio ==
    chain_pc = "done" =>
        /\ Len(arrived) = total_blocks
        /\ dependency_ratio = IF total_txs = 0
                              THEN Ratio(0, 1)
                              ELSE Ratio(Cardinality(ArrivedDependents), total_txs)

\* C3 witness: block A (3 transactions, 2 dependent hashes) and block B
\* (2 transactions, none dependent) give 2/5
C3_Witness ==
    /\ chain_pc = "done"
    /\ total_blocks = 2
    /\ \E a, b \in 1..2 :
          /\ a # b
          /\ arrived[a].value.total = 3
          /\ Cardinality(arrived[a].value.dependent_txs) = 2
          /\ arrived[b].value.total = 2
          /\ arrived[b].value.dependent_txs = {}
    /\ dependency_ratio = Ratio(2, 5)

\* C4 (as claimed): a failed result or a raising block task never aborts the
\* run: analyze_chain does not raise, and when it returns every block was
\* processed, failed_blocks is the number of failed or raising blocks and
\* block_success_rate is (total_blocks - failed_blocks) / total_blocks.
C4_FailuresNeverAbort ==
    /\ chain_pc # "aborted"
    /\ chain_pc = "loop" => failed_blocks = Cardinality(ArrivedFailures)
    /\ chain_pc = "done" =>
          /\ completed = total_blocks
          /\ failed_blocks = Cardinality(ArrivedFailures)
          /\ block_success_rate = Ratio(total_blocks - failed_blocks, total_blocks)

\* C13: for a block of 0 or 1 transactions analyze_block returns an empty
\* dependent-hash list and an empty conflict list.
C13_SmallBlockNoConflicts ==
    (pc = "done" /\ Len(block) <= 1) =>
        /\ result.dependent_txs = {}
        /\ result.conflicts = <<>>

\* a block of one transaction whose trace was fetched and analysed
C13_Witness ==
    /\ pc = "done"
    /\ Len(block) = 1
    /\ Len(traces) = 1
    /\ ~result.failed
    /\ result.total = 1

(***************************************************************************)
(* Properties of main and of the worker pool (SpecMain, SpecChain).        *)
(***************************************************************************)
\* C19: chains are processed one at a time in the order of config.chains: a
\* block analysis is only dispatched for the current chain, whose
\* predecessors all have their summary in chain_results; the loop moves to
\* the next chain only when every block result of the current chain has been
\* aggregated and its summary produced; the final list holds exactly one
\* summary per configured chain, in order.
C19_ChainsOneAtATime ==
    /\ [](chain_pc = "finished" =>
            /\ Len(chain_results) = Len(chains)
            /\ \A i \in 1..Len(chains) : chain_results[i].chain_name = chains[i].name)
    /\ [](chain_pc \in {"loop", "done", "aborted"} => Len(chain_results) = chain_idx - 1)
    /\ [][chain_idx' # chain_idx =>
            /\ chain_pc = "done"
            /\ pending = {} /\ running = {}
            /\ completed = total_blocks
            /\ Len(arrived) = total_blocks
            /\ chain_idx' = chain_idx + 1
            /\ chain_results' = Append(chain_results, Summary)]_vars
    /\ [][(running' \ running) # {} =>
            /\ chain_pc = "loop" /\ chain_pc' = "loop"
            /\ chain_idx' = chain_idx
            /\ Len(chain_results) = chain_idx - 1]_vars

\* every chain was analysed, the second one with at least two blocks
C19_Witness ==
    /\ chain_pc = "finished"
    /\ Len(chain_results) = Len(chains)
    /\ chain_results[2].total_blocks >= 2
    /\ chain_results[2].total_transactions > 0
    /\ chain_results[3].chain_name = "Optimism"

\* C20 as stated: one task per block, never more than max(1, cpu_count - 1)
\* block analyses at the same time, every result aggregated exactly once, so
\* that completed = total_blocks when the loop ends.
C20_EveryResultAggregatedOnce ==
    /\ Cardinality(running) <= Max(1, cpu_count - 1)
    /\ running \subseteq pending
    /\ pending \subseteq 1..total_blocks
    /\ Len(arrived) = total_blocks - Cardinality(pending)
    /\ chain_pc \in {"done", "aborted"} => (completed = total_blocks /\ pending = {})

\* the conflicts of type t in the results that arrived, whatever their order
RECURSIVE ArrivedTypeCount(_, _)
ArrivedTypeCount(n, t) ==
    IF n = 0 THEN 0
    ELSE ArrivedTypeCount(n - 1, t)
         + (IF arrived[n].raised THEN 0
            ELSE Cardinality({ k \in 1..Len(arrived[n].value.conflicts) :
                                 arrived[n].value.conflicts[k].type = t }))

\* C21: the summary analyze_chain produces depends on the results that
\* arrived only, not on their order: total_txs is the sum of their totals, the
\* dependent hashes are the union of their dependent sets, failed_blocks
\* the number of failed or raising ones, each per-type count the number of
\* their conflicts of that type.
C21_SummaryOrderIndependent ==
    chain_pc = "done" =>
        /\ Len(arrived) = total_blocks
        /\ total_txs = SumTotals(Len(arrived), TRUE)
        /\ { all_dependent_txs[i] : i \in 1..Len(all_dependent_txs) } = ArrivedDependents
        /\ failed_blocks = Cardinality(ArrivedFailures)
        /\ \A t \in ConflictTypes : conflict_counts[t] = ArrivedTypeCount(Len(arrived), t)

\* the result of block 2 arrived before the result of block 1
C21_Witness ==
    /\ chain_pc = "done"
    /\ total_blocks >= 2
    /\ ChainHash(2, 1) \in arrived[1].value.dependent_txs
    /\ arrived[2].value.total = 2
    /\ total_txs = SumTotals(Len(arrived), TRUE)
    /\ total_txs >= 5

\* the conflicts of type t in all_conflicts
AggregatedOfType(t) == { k \in 1..Len(all_conflicts) : all_conflicts[k].type = t }

\* C24: for every conflict type the count in conflict_counts is the number of
\* conflicts of that type in all_conflicts, after every sequence of results
\* and so when analyze_chain ends (by returning or by raising).
C24_CountsMatchConflicts ==
    /\ \A t \in ConflictTypes : conflict_counts[t] = Cardinality(AggregatedOfType(t))
    /\ \A k \in 1..Len(all_conflicts) : all_conflicts[k].type \in ConflictTypes

\* two blocks with conflicts of two types were aggregated
C24_Witness ==
    /\ chain_pc = "done"
    /\ Len(all_conflicts) >= 4
    /\ conflict_counts["same-source"] = 2
    /\ conflict_counts["eoa-transfer-conflict"] = 2

\* the block fetch of line 248 raised
BlockFetchFailed == tx_idx = 0 /\ response.kind = "raised"

\* the block of line 248 arrived and no trace was requested yet
BlockJustFetched == pc = "acquire" /\ tx_idx = 1 /\ requests = 0 /\ retries = 0

\* C18 as stated: the block fetch is preceded by a rate-limiter acquire, and a
\* rate-limited (429) answer to the block fetch is retried with backoff
\* instead of failing the block at once.
C18_BlockFetchThroughRequestLayer ==
    /\ BlockJustFetched => last_gap >= 0
    /\ (BlockFetchFailed /\ response.text = ExcHttp429) => ~(pc = "done" /\ result.failed)

\* C18 amended: analyze_block fetches the block with one direct call: no
\* acquire precedes it, and when the fetch raises (a 429 included) the block
\* fails at once with ([], 0, [], True), without retry or backoff.
C18_BlockFetchDirect ==
    /\ BlockJustFetched => last_gap < 0
    /\ BlockFetchFailed =>
          /\ pc = "done"
          /\ result = OuterExceptResult
          /\ retries = 0 /\ sleep_time = 0 /\ backoff_total = 0
          /\ last_gap < 0

\* the provider answers the block fetch with HTTP 429
C18_Witness ==
    /\ BlockFetchFailed
    /\ response.text = ExcHttp429
    /\ pc = "done"
    /\ result = OuterExceptResult

\* a trace that was fetched makes analyze_trace raise
SomeTraceMalformed == \E i \in 1..Len(traces) : analyze_trace_raises(traces[i])

\* C25: analyze_block never raises: it is at one of its steps until it ends,
\* and it ends with a returned result; a failed block fetch, a failed trace fetch and a trace analyze_trace cannot
\* read give failed = true; a failed result carries no dependent hash and no
\* conflict; a result that is not failed has the number of transactions of
\* the block as total and dependents among the hashes of the block.
C25_AlwaysReturnsResult ==
    /\ pc # "done" =>
          /\ result = NoBlockResult
          /\ pc \in {"start", "acquire", "request", "call_returned", "call_raised", "analyze"}
    /\ pc = "done" =>
          /\ result # NoBlockResult
          /\ (BlockFetchFailed \/ TraceFetchFailed \/ SomeTraceMalformed) => result.failed
          /\ result.failed => (result.dependent_txs = {} /\ result.conflicts = <<>>)
          /\ ~result.failed =>
                /\ result.total = Len(block)
                /\ result.dependent_txs \subseteq { block[i] : i \in 1..Len(block) }

\* every trace of the block arrived and one of them has an internal call
\* without 'to'
C25_Witness ==
    /\ pc = "done"
    /\ Len(traces) = Len(block)
    /\ Len(block) = 2
    /\ SomeTraceMalformed
    /\ result.failed /\ result.total = 0

(***************************************************************************)
(* Properties of conflict detection on a pair (SpecDetect).                *)
(***************************************************************************)
\* the conflicts of cs with type t and address a
ConflictCount(cs, t, a) ==
    Cardinality({ i \in 1..Len(cs) : cs[i].type = t /\ cs[i].contract_address = a })

\* the (type, address) entries of cs
ConflictEntries(cs) == { <<cs[i].type, cs[i].contract_address>> : i \in 1..Len(cs) }

\* cs1 and cs2 hold the same (type, address) entries, each as often
SameMultiplicity(cs1, cs2) ==
    /\ ConflictEntries(cs1) = ConflictEntries(cs2)
    /\ \A e \in ConflictEntries(cs1) :
          ConflictCount(cs1, e[1], e[2]) = ConflictCount(cs2, e[1], e[2])

\* C11 as stated: check_modifications_conflict(A, B) and (B, A) return the
\* same dependent flag and the same (type, address) conflicts with the same
\* multiplicity, and the AccessSet comparison gives the same verdict for
\* (A, B) and (B, A).
C11_DetectionSymmetric ==
    /\ pair_pc = "checked" =>
          /\ check12.dependent = check21.dependent
          /\ SameMultiplicity(check12.conflicts, check21.conflicts)
    /\ access_pc = "compared" => ((dependent_pairs # <<>>) = (swapped_pairs # <<>>))

\* C11 amended: the two orders give the same dependent flag and the same set
\* of (type, address) conflicts (the multiplicity may differ), and the
\* AccessSet comparison gives the same verdict for (A, B) and (B, A).
C11_VerdictSymmetric ==
    /\ pair_pc = "checked" =>
          /\ check12.dependent = check21.dependent
          /\ ConflictEntries(check12.conflicts) = ConflictEntries(check21.conflicts)
    /\ access_pc = "compared" => ((dependent_pairs # <<>>) = (swapped_pairs # <<>>))

\* tx1 makes the same transfer twice, tx2 once: two conflicts one way, one the
\* other way
C11_Witness ==
    /\ pair_pc = "checked"
    /\ check12.dependent /\ check21.dependent
    /\ Len(check12.conflicts) > Len(check21.conflicts)
    /\ ConflictEntries(check12.conflicts) = ConflictEntries(check21.conflicts)

\* the list lst holds exactly the keys of the set S, each once
ListsExactly(lst, S) == Len(lst) = Cardinality(S) /\ { lst[i] : i \in 1..Len(lst) } = S

\* C12: in AccessSet mode the pair is recorded as dependent iff
\* writes1 \cap writes2, writes1 \cap reads2 or reads1 \cap writes2 is not
\* empty, the record lists exactly those keys per category, and one shared
\* write key without read/write overlap gives one write-write item and no
\* other item.
C12_AccessSetDependence ==
    (access_pc = "compared" /\ Len(valid_tx_data) = 2) =>
        LET ww == valid_tx_data[1].writes \cap valid_tx_data[2].writes
            wr == valid_tx_data[1].writes \cap valid_tx_data[2].reads
            rw == valid_tx_data[1].reads \cap valid_tx_data[2].writes
        IN  /\ (dependent_pairs # <<>>) <=> (ww # {} \/ wr # {} \/ rw # {})
            /\ dependent_pairs # <<>> =>
                  /\ Len(dependent_pairs) = 1
                  /\ dependent_pairs[1].tx1 = valid_tx_data[1].tx_hash
                  /\ dependent_pairs[1].tx2 = valid_tx_data[2].tx_hash
                  /\ ListsExactly(dependent_pairs[1].conflicts.write_conflicts, ww)
                  /\ ListsExactly(dependent_pairs[1].conflicts.write_read_conflicts, wr)
                  /\ ListsExactly(dependent_pairs[1].conflicts.read_write_conflicts, rw)
            /\ (Cardinality(ww) = 1 /\ wr = {} /\ rw = {}) =>
                  /\ Len(dependent_pairs) = 1
                  /\ Len(dependent_pairs[1].conflicts.write_conflicts) = 1
                  /\ dependent_pairs[1].conflicts.write_read_conflicts = <<>>
                  /\ dependent_pairs[1].conflicts.read_write_conflicts = <<>>

\* two senders pay the same recipient and nothing is read
C12_Witness ==
    /\ access_pc = "compared"
    /\ Len(valid_tx_data) = 2
    /\ Cardinality(valid_tx_data[1].writes \cap valid_tx_data[2].writes) = 1
    /\ valid_tx_data[1].writes \cap valid_tx_data[2].reads = {}
    /\ valid_tx_data[1].reads \cap valid_tx_data[2].writes = {}
    /\ Len(dependent_pairs) = 1

\* two erc20-transfer Modifications with the same to address
SameTokenTransfers(m1, m2) ==
    /\ m1.type = "erc20-transfer"
    /\ m2.type = "erc20-transfer"
    /\ m1.to_address = m2.to_address

HasConflictOfType(cs, t) == \E i \in 1..Len(cs) : cs[i].type = t

\* C14: check_modifications_conflict produces an erc20-balance-conflict iff
\* tx1 and tx2 each contain an erc20-transfer with the same to address whose
\* token_from are equal or whose token_to are equal; each such conflict
\* names the to address of such a pair.
C14_Erc20ConflictIff ==
    pair_pc = "checked" =>
        /\ HasConflictOfType(check12.conflicts, "erc20-balance-conflict") <=>
              \E i \in 1..Len(modifications1), j \in 1..Len(modifications2) :
                 /\ SameTokenTransfers(modifications1[i], modifications2[j])
                 /\ \/ modifications1[i].token_from = modifications2[j].token_from
                    \/ modifications1[i].token_to = modifications2[j].token_to
        /\ \A k \in 1..Len(check12.conflicts) :
              check12.conflicts[k].type = "erc20-balance-conflict" =>
                 \E i \in 1..Len(modifications1), j \in 1..Len(modifications2) :
                    /\ SameTokenTransfers(modifications1[i], modifications2[j])
                    /\ check12.conflicts[k].contract_address = modifications1[i].to_address
                    /\ \/ modifications1[i].token_from = modifications2[j].token_from
                       \/ modifications1[i].token_to = modifications2[j].token_to

\* tx1 holds a transfer that differs from the transfer of tx2 in both
\* operands and one that shares its recipient only: one conflict, for the
\* second
C14_Witness ==
    /\ pair_pc = "checked"
    /\ Len(modifications2) = 1
    /\ \E i \in 1..Len(modifications1) :
          /\ SameTokenTransfers(modifications1[i], modifications2[1])
          /\ modifications1[i].token_from # modifications2[1].token_from
          /\ modifications1[i].token_to # modifications2[1].token_to
    /\ \E i \in 1..Len(modifications1) :
          /\ SameTokenTransfers(modifications1[i], modifications2[1])
          /\ modifications1[i].token_from # modifications2[1].token_from
          /\ modifications1[i].token_to = modifications2[1].token_to
    /\ ConflictCount(check12.conflicts, "erc20-balance-conflict",
                     modifications2[1].to_address) = 1

\* the kinds of a Modification
ModificationKinds == {"eth-transfer", "eoa-transfer", "erc20-transfer", "contract-call"}

\* the Modifications of trace tr are of the four kinds, and an internal call
\* that carries input data and is no transfer is a contract-call
KindsClosed(tr, mods) ==
    /\ \A i \in 1..Len(mods) : mods[i].type \in ModificationKinds
    /\ \A k \in 1..Len(tr.result.calls) :
          (Len(mods) > k /\ mods[k + 1].input_data # Str0x /\ mods[k + 1].type # "erc20-transfer")
             => mods[k + 1].type = "contract-call"

\* C15 as stated: every Modification analyze_trace returns, for the root call
\* and for every internal call, has a kind in {eth-transfer, eoa-transfer,
\* erc20-transfer, contract-call}; an internal call with input data to a
\* contract is a contract-call.
C15_ModificationKinds ==
    pair_pc \in {"modifications", "checked"} =>
        /\ KindsClosed(trace1, modifications1)
        /\ KindsClosed(trace2, modifications2)

\* the calls of the call tree under call c, depth first, c first
RECURSIVE CallTree(_)
CallTree(c) == <<c>> \o Flatten([i \in 1..Len(c.calls) |-> CallTree(c.calls[i])])

\* mods holds one Modification per call of the call tree of tr, in depth-first
\* order
OnePerCall(tr, mods) ==
    LET tree == CallTree(tr.result)
    IN  /\ Len(mods) = Len(tree)
        /\ \A i \in 1..Len(mods) :
              i <= Len(tree) =>
                 /\ mods[i].from_address = Lower(tree[i].from)
                 /\ mods[i].to_address = Lower(tree[i].to)
                 /\ mods[i].input_data = Get(tree[i].input, Str0x)
                 /\ mods[i].value = Get(tree[i].value, Str0x0)

\* C16 as stated: analyze_trace returns exactly one Modification per call of
\* the call tree (the root call and every internal call at every nesting
\* depth), in depth-first order.
C16_OneModificationPerCall ==
    pair_pc \in {"modifications", "checked"} =>
        /\ OnePerCall(trace1, modifications1)
        /\ OnePerCall(trace2, modifications2)

\* the calls analyze_trace visits: the root call and the entries of its calls
VisitedCalls(tr) == <<tr.result>> \o tr.result.calls

\* the call data of c starts with the selector of transfer(address,uint256)
IsTransferCall(c) == StartsWith(Get(c.input, Str0x), TransferSelector)

\* the recipient word of the call data of c
DecodedRecipient(c) == Lower(Str0x \o Slice(c.input, 34, 74))

\* every visited call of tr that is a transfer call (of at least minLen
\* characters) has an erc20-transfer Modification to the decoded recipient
TransfersClassified(tr, mods, minLen) ==
    \A i \in 1..Len(mods) :
        (IsTransferCall(VisitedCalls(tr)[i]) /\ Len(VisitedCalls(tr)[i].input) >= minLen) =>
            /\ mods[i].type = "erc20-transfer"
            /\ mods[i].token_to = DecodedRecipient(VisitedCalls(tr)[i])

\* C17 as stated: every call whose input starts with the selector 0xa9059cbb
\* is an erc20-transfer with token_to the decoded recipient, whatever the
\* length of the rest of the input, the value or the nested calls.
C17_SelectorMakesTransfer ==
    pair_pc \in {"modifications", "checked"} =>
        /\ TransfersClassified(trace1, modifications1, 0)
        /\ TransfersClassified(trace2, modifications2, 0)

\* C17 amended: every visited call whose input is at least 138 characters
\* long and starts with the selector is an erc20-transfer with token_to the
\* decoded recipient, whatever its value or nested calls; a visited call with
\* a shorter input is never an erc20-transfer.
C17_LongSelectorMakesTransfer ==
    pair_pc \in {"modifications", "checked"} =>
        /\ TransfersClassified(trace1, modifications1, Len(TransferInput(AddrEoa)))
        /\ TransfersClassified(trace2, modifications2, Len(TransferInput(AddrEoa)))
        /\ \A mods \in {modifications1, modifications2} :
              \A i \in 1..Len(mods) :
                 Len(mods[i].input_data) < Len(TransferInput(AddrEoa))
                    => mods[i].type # "erc20-transfer"

\* tx1 is a transfer call cut after the recipient word, with an internal
\* transfer call of full length that carries value and has nested calls
C17_Witness ==
    /\ pair_pc = "modifications"
    /\ Len(modifications1) = 2
    /\ IsTransferCall(trace1.result)
    /\ Len(trace1.result.input) < Len(TransferInput(AddrEoa))
    /\ modifications1[1].type = "contract-call"
    /\ IsTransferCall(trace1.result.calls[1])
    /\ trace1.result.calls[1].value # Str0x0
    /\ trace1.result.calls[1].calls # <<>>
    /\ modifications1[2].type = "erc20-transfer"
    /\ modifications1[2].token_to = AddrEoa

\* the addresses both transactions send a nonzero value from
CommonSources(ms1, ms2) ==
    { a \in { ms1[i].from_address : i \in 1..Len(ms1) } :
        /\ \E i \in 1..Len(ms1) : ms1[i].from_address = a /\ ms1[i].value # Str0x0
        /\ \E j \in 1..Len(ms2) : ms2[j].from_address = a /\ ms2[j].value # Str0x0 }

\* C22: check_modifications_conflict produces a same-source conflict iff both
\* transactions contain a Modification with nonzero value from the same
\* address, exactly one per such address, and it returns dependent = true iff
\* the conflict list it returns is not empty.
C22_SameSourceAndDependent ==
    pair_pc = "checked" =>
        /\ HasConflictOfType(check12.conflicts, "same-source")
              <=> CommonSources(modifications1, modifications2) # {}
        /\ \A a \in CommonSources(modifications1, modifications2) :
              ConflictCount(check12.conflicts, "same-source", a) = 1
        /\ \A k \in 1..Len(check12.conflicts) :
              check12.conflicts[k].type = "same-source" =>
                 check12.conflicts[k].contract_address
                    \in CommonSources(modifications1, modifications2)
        /\ check12.dependent <=> (check12.conflicts # <<>>)
        /\ check21.dependent <=> (check21.conflicts # <<>>)

\* tx1 sends value twice from the address tx2 sends value from: one conflict
C22_Witness ==
    /\ pair_pc = "checked"
    /\ Len(modifications1) = 2
    /\ modifications1[1].from_address = modifications1[2].from_address
    /\ modifications1[1].value # Str0x0 /\ modifications1[2].value # Str0x0
    /\ modifications1[1].from_address \in CommonSources(modifications1, modifications2)
    /\ ConflictCount(check12.conflicts, "same-source", modifications1[1].from_address) = 1
    /\ check12.dependent

\* s holds no upper-case letter
IsLowerCase(s) == Lower(s) = s

\* the addresses of the Modifications mods are lower case
ModificationsLowerCase(mods) ==
    \A i \in 1..Len(mods) :
        /\ IsLowerCase(mods[i].from_address)
        /\ IsLowerCase(mods[i].to_address)
        /\ mods[i].token_from # None => IsLowerCase(mods[i].token_from)
        /\ mods[i].token_to # None => IsLowerCase(mods[i].token_to)

\* the call c with its addresses (from, to and the recipient word of its call
\* data) in lower case, and so for the calls under it
RECURSIVE LowerCaseCall(_)
LowerCaseCall(c) ==
    Call(c.type, Lower(c.from), Lower(c.to),
         IF c.input # Missing /\ Len(c.input) >= 74
         THEN Slice(c.input, 0, 34) \o Lower(Slice(c.input, 34, 74))
              \o Slice(c.input, 74, Len(c.input))
         ELSE c.input,
         c.value,
         [i \in 1..Len(c.calls) |-> LowerCaseCall(c.calls[i])])

\* the addresses of the Modifications of tr, Modification by Modification
AddressesOf(mods) ==
    [i \in 1..Len(mods) |->
        <<mods[i].type, mods[i].from_address, mods[i].to_address, mods[i].token_from,
          mods[i].token_to>>]

\* the tx_data d with the addresses of its trace, transaction and receipt in
\* lower case
LowerCaseTxData(d) ==
    TxData({ StateEntry(Lower(e.address), e.balance, e.nonce, e.code, e.storage) :
                e \in d.trace },
           Lower(d.transaction.from),
           IF d.transaction.to = None THEN None ELSE Lower(d.transaction.to),
           IF d.receipt.contractAddress = None THEN None
           ELSE Lower(d.receipt.contractAddress),
           [i \in 1..Len(d.receipt.logs) |->
               Log(Lower(d.receipt.logs[i].address), d.receipt.logs[i].topics)])

\* C23: every address the extractors store (from_address, to_address,
\* token_from and token_to of a Modification, the address of every read and
\* write key) is lower case, so that traces which differ only in the letter
\* case of an address give equal addresses, equal keys and the same verdict.
C23_AddressesLowerCase ==
    /\ pair_pc \in {"modifications", "checked"} =>
          /\ ModificationsLowerCase(modifications1)
          /\ ModificationsLowerCase(modifications2)
          /\ AddressesOf(analyze_trace([result |-> LowerCaseCall(trace1.result)]))
                = AddressesOf(modifications1)
    /\ pair_pc = "checked" =>
          check_modifications_conflict(
              analyze_trace([result |-> LowerCaseCall(trace1.result)]),
              analyze_trace([result |-> LowerCaseCall(trace2.result)])) = check12
    /\ access_pc \in {"sets", "compared"} =>
          /\ \A i \in 1..Len(valid_tx_data) :
                \A k \in valid_tx_data[i].reads \cup valid_tx_data[i].writes :
                    IsLowerCase(k.address)
          /\ ValidTxData(<<HashA, HashC>>,
                         <<IF tx_data1 = NoTxData THEN NoTxData ELSE LowerCaseTxData(tx_data1),
                           IF tx_data2 = NoTxData THEN NoTxData ELSE LowerCaseTxData(tx_data2)>>)
                = valid_tx_data

\* tx1 spells the sender and the recipient in mixed case, tx2 the same two
\* addresses in lower case: the pair conflicts on the lower-case addresses
C23_Witness ==
    /\ pair_pc = "checked"
    /\ ~IsLowerCase(trace1.result.from)
    /\ ~IsLowerCase(trace1.result.to)
    /\ IsLowerCase(trace2.result.from)
    /\ Lower(trace1.result.from) = trace2.result.from
    /\ Lower(trace1.result.to) = trace2.result.to
    /\ ConflictCount(check12.conflicts, "same-source", trace2.result.from) = 1
    /\ ConflictCount(check12.conflicts, "eoa-transfer-conflict", trace2.result.to) = 1

\* a trace request is sent in this step (requests counts the requests of
\* the running trace_transaction call)
TraceRequestIssued == requests' = requests + 1

\* C26: analyze_block fetches traces one transaction at a time in block
\* order: a trace request is for the transaction at tx_idx and is sent only
\* when the traces of all transactions before it are stored and no request
\* is awaiting its answer; tx_idx moves from one transaction to the next one
\* only when the trace of the former is stored; once the trace of a
\* transaction has failed the block ends at once, and from then on no trace
\* request is sent and no later transaction is reached.
C26_TraceFetchesSerialAndStopOnFailure ==
    [][ /\ TraceRequestIssued =>
              /\ pc = "request"
              /\ tx_idx \in 1..Len(txs)
              /\ Len(traces) = tx_idx - 1
              /\ tx_idx' = tx_idx
        /\ tx_idx' # tx_idx =>
              /\ tx_idx' = tx_idx + 1
              /\ tx_idx > 0 => (pc = "call_returned" /\ Len(traces') = tx_idx)
              /\ requests' = 0
        /\ pc = "call_raised" =>
              /\ pc' = "done"
              /\ result'.failed
              /\ requests' = requests
              /\ tx_idx' = tx_idx
              /\ traces' = traces
        /\ pc = "done" =>
              /\ requests' = requests
              /\ tx_idx' = tx_idx
              /\ traces' = traces
      ]_vars

\* the trace of the first of two transactions failed: the block ended with
\* no trace stored and the second transaction never reached
C26_Witness ==
    /\ TraceFetchFailed
    /\ Len(txs) = 2
    /\ tx_idx = 1
    /\ traces = <<>>
    /\ requests >= 1
    /\ result.failed

====
